---- MODULE Spec2Model ----
(***************************************************************************)
(* A model of playpi's Gemini provider: the batch coordinator              *)
(* (google_gemini_deep_research_multi), the step sequence of the four      *)
(* single-shot operations, the login wait (ensure_authenticated), the      *)
(* completion detectors (_wait_for_completion, _wait_for_sources_button),  *)
(* the selector loops of _enter_prompt and _extract_main_output, and the   *)
(* way of a prompt from the caller to the textbox.                         *)
(*                                                                         *)
(* asyncio is cooperative: a coroutine runs without interruption from one  *)
(* await to the next, so every action below is the code between two        *)
(* suspension points of one coroutine.                                     *)
(***************************************************************************)
EXTENDS Integers, Sequences, FiniteSets, TLC

VARIABLES
    \* ---- batch coordinator (gemini.py:113-147) ----
    config,        \* the caller's list of task configs
    mainPc,        \* position of google_gemini_deep_research_multi
    taskPc,        \* position of each run_task coroutine
    taskOutcome,   \* what each run_task returned or raised (<<"none", t>> while running)
    taskPage,      \* the page each task passed to the sequencer (0: none yet)
    permits,       \* asyncio.Semaphore._value
    waiters,       \* asyncio.Semaphore._waiters, FIFO
    doneOrder,     \* task ids in the order their coroutines finished
    sessionState,  \* "new" | "open" | "closing" | "closed"
    gatherExc,     \* the task whose exception gather() was completed with (0: none)
    returned,      \* what the caller of multi received (<<"none">> while running)
    \* ---- one single-shot operation (gemini.py:31-84, 190-252, 318-378, 404-459) ----
    op,            \* the public operation called
    runPhase,      \* "idle" | "new" | "running" | "raising" | "returning" | "finished"
    runPc,         \* index of the next step of the operation's body
    trace,         \* the steps started, in order
    okSteps,       \* the steps that returned normally, in order
    clicks,        \* the controls clicked, in order
    raised,        \* kind of the exception raised inside the session scope ("none")
    raisedBy,      \* the step that raised it ("none")
    delivered,     \* what the caller received: "none", "result" or an exception kind
    waitEnded,     \* how the completion wait ended: "none" | "signal" | "timeout" | "error"
    dialog,        \* what _handle_confirmation_dialog met and did
    \* ---- the login wait (auth.py:13-54, google.py:105-142) ----
    authVariant,   \* "gemini": auth.ensure_authenticated, "legacy": google._ensure_authenticated
    authTimeout,   \* the overall timeout passed in, seconds
    forceFailure,  \* PLAYPI_FORCE_AUTH_FAILURE == "1" and a real Page
    now,           \* loop.time(), seconds since the call
    loginDeadline, \* login_deadline
    authPc,        \* "idle" | "call" | "load" | "probe" | "sleep" | "returned" | "raised"
    authErr,       \* kind of the exception raised ("none")
    pageCalls,     \* the kinds of call the login wait has made on the page
    lastProbe,     \* has_chat_interface in this iteration: "none" | "pending" | an outcome
    \* ---- the completion detectors (gemini.py:917-975, 978-1058) ----
    waitFn,        \* "_wait_for_completion" | "_wait_for_sources_button"
    waitTimeout,   \* the timeout passed in, whole seconds
    waitNow,       \* loop.time() - start_time, in half seconds
    waitPc,        \* "idle" | "loop" | "indicator" | "content" | "recheck" | "sleep"
                   \* | "fallback" | "diagnostics" | "render" | "returned" | "raised"
    indIdx,        \* index of the next indicator selector of this iteration
    pageVisible,   \* the indicator selectors that match the page now
    pageContent,   \* the response text (sources) or the page content (completion) now
    visibleAtCall, \* whether an indicator matched the page when the detector was called
    firstText,     \* content_text of the current iteration
    firstReadAt,   \* waitNow when content_text was read (-1: not read)
    probed,        \* the indicators probed in the current iteration, in order
    probeErrors,   \* whether a probe of an indicator raised
    pollSleeps,    \* whether the poll-interval sleep was executed
    contentReads,  \* whether the content was read
    diagnosticReads, \* how often page.content() was read after the timeout of the sources wait
    lastProgress,  \* last_progress_time, in half seconds since the call
    progressObs,   \* what the last progress report observed: "none" | an observation
    waitResult,    \* "none" | "indicator" | "content" | "timeout"
                   \* | "PlayPiTimeoutError" | "ProviderError"
    \* ---- selector resolution (gemini.py:598-624, 738-776) ----
    resFn,         \* "_enter_prompt" | "_extract_main_output"
    candidates,    \* what wait_for does for each selector of the list
    resPc,         \* "idle" | "probe" | "click" | "fill" | "read" | "simple" | "done"
    resIdx,        \* index of the next selector of the list
    resProbed,     \* the selectors whose wait_for was awaited, in order
    element,       \* the selector of text_input / element (0: None)
    resUsed,       \* the calls made on a located element, in order
    resOutcome,    \* "none" | "returned" | "markdown" | "simple" | "empty" | "ProviderError"
    \* ---- the way of a prompt (gemini.py:87-110, 117-140, cli_helpers.py:48-75) ----
    entry,         \* the function the caller called
    argPrompt,     \* its prompt argument: [given, text]
    argFile,       \* its prompt file argument: [given, text], text as read from the file
    argOutput,     \* whether an output path was given
    promptPc,      \* "idle" | "call" | "provider" | "running" | "output" | "done"
    providerPrompt,\* the prompt the provider was called with: [called, text]
    filled,        \* the text passed to text_input.fill: [done, text]
    providerResult,\* the text the provider returned
    written,       \* what was written to the output path: [done, text]
    promptReturned,\* what the caller received: <<"none">>, <<"text", t>>, <<"path">>, <<kind>>
    \* ---- the browser session (session.py:21-159) ----
    sessUsage,     \* "direct": the caller drives the session; "scoped": create_session does
    sessPc,        \* "new" | "idle" | "body" | "exited"
    handles,       \* the handles of the session that are not None
    live,          \* the browser resources that were started and not closed
    lifecycle,     \* "new" | "started" | "start_failed" | "closed": the last of start()/close()
    got,           \* what the last get_page() did: "none" | "page" | "SessionError"
    closeCalls,    \* how many times close() ran
    sessCalls,     \* how many calls the caller made
    scopeExit,     \* how the create_session scope was left: "none" | "returned" | "raised" | "BrowserError"
    \* ---- the extraction of the response (gemini.py:462-735, html.py:43-88) ----
    extractFn,     \* "none" | "research" (extract_research_content) | "enhanced"
    extractPc,     \* "idle" | "research" | "markdown" | "output" | "output_simple" |
                   \* "thinking" | "sources" | "compose" | "simple" | "done"
    researchPage,  \* the five candidate containers of the page: [state, html] each
    bodyHtml,      \* the body of the page: [state, html]
    contentHtml,   \* content_html
    outputContent, \* output_content
    thinkingContent, \* thinking_content
    sourcesContent,\* sources_content
    simpleResult,  \* what the last _extract_simple_response did
    containerSeen, \* whether some probe of the extraction found a container
    fallbackUsable,\* whether a fallback text was found usable
    extractResult, \* <<"none">> | <<"text", t>> | <<kind of the exception>>
    toggleLabel,   \* text_content() of the thinking toggle, in words (<<>>: none read)
    openAtCall,    \* the thinking panel was expanded when _extract_thinking_content began
    panelOpen,     \* the thinking panel is expanded
    toggleClicks,  \* clicks of _extract_thinking_content on the toggle
    \* ---- the line clean-up of html_to_markdown (html.py:29-40) ----
    cleanPc,       \* "idle" | "split" | "lines" | "join" | "done"
    markdown,      \* the text html2text's handle() returned
    lines,         \* markdown.split("\n")
    cleanIdx,      \* the line the for loop is at
    cleanedLines,  \* cleaned_lines
    cleanResult,   \* the text html_to_markdown returns
    \* ---- the list of sources (gemini.py:695-724) ----
    linkFn,        \* "none" | "_extract_sources_content" | "_process_x_links"
    linkPc,        \* "idle" | "cards" | "done"
    cards,         \* the source cards (the anchors) of the page: [title, url, raises] each
    cardIdx,       \* the card the for loop is at
    sourcesList    \* sources_list (unique_links): [title, url] each

batchVars == <<config, mainPc, taskPc, taskOutcome, taskPage, permits,
               waiters, doneOrder, sessionState, gatherExc, returned>>

runVars == <<op, runPhase, runPc, trace, okSteps, clicks, raised, raisedBy, delivered,
             waitEnded, dialog>>

authVars == <<authVariant, authTimeout, forceFailure, now, loginDeadline, authPc, authErr,
              pageCalls, lastProbe>>

waitVars == <<waitFn, waitTimeout, waitNow, waitPc, indIdx, pageVisible, pageContent,
              visibleAtCall, firstText, firstReadAt, probed, probeErrors, pollSleeps,
              contentReads, diagnosticReads, lastProgress, progressObs, waitResult>>

\* The variables of the helpers that are modelled on their own.
resolveVars == <<resFn, candidates, resPc, resIdx, resProbed, element, resUsed, resOutcome>>

promptVars == <<entry, argPrompt, argFile, argOutput, promptPc, providerPrompt, filled,
                providerResult, written, promptReturned>>

\* The variables of the session and of the content extraction.
sessVars == <<sessUsage, sessPc, handles, live, lifecycle, got, closeCalls, sessCalls,
              scopeExit>>

extractVars == <<extractFn, extractPc, researchPage, bodyHtml, contentHtml, outputContent,
                 thinkingContent, sourcesContent, simpleResult, containerSeen,
                 fallbackUsable, extractResult, toggleLabel, openAtCall, panelOpen,
                 toggleClicks>>

toggleVars == <<toggleLabel, openAtCall, panelOpen, toggleClicks>>

cleanVars == <<cleanPc, markdown, lines, cleanIdx, cleanedLines, cleanResult>>

linkVars == <<linkFn, linkPc, cards, cardIdx, sourcesList>>

contentVars == <<sessVars, extractVars, cleanVars, linkVars>>

coreVars == <<batchVars, runVars, authVars, waitVars, resolveVars, promptVars>>

helperVars == <<waitVars, resolveVars, promptVars, contentVars>>

vars == <<batchVars, runVars, helperVars, authVars, helperVars>>

----------------------------------------------------------------------------
\* Bounds of the model.
MaxTasks == 4

\* asyncio.Semaphore(3)
SemaphorePermits == 3

----------------------------------------------------------------------------
\* Helpers on sequences.
Range(s) == {s[i] : i \in 1..Len(s)}

Min(a, b) == IF a < b THEN a ELSE b

\* The position of the first x in s, 0 when s has none.
IndexOf(s, x) ==
    IF x \in Range(s) THEN CHOOSE i \in 1..Len(s) : s[i] = x /\ \A j \in 1..(i - 1) : s[j] # x
    ELSE 0

IsPrefix(s, t) == Len(s) <= Len(t) /\ \A i \in 1..Len(s) : s[i] = t[i]

RECURSIVE SeqsUpTo(_, _)
SeqsUpTo(S, n) ==
    IF n = 0 THEN {<<>>}
    ELSE LET shorter == SeqsUpTo(S, n - 1)
         IN shorter \cup {Append(s, x) : s \in {q \in shorter : Len(q) = n - 1}, x \in S}

----------------------------------------------------------------------------
\* Batch coordinator.

\* The task configs a caller passes: the keys run_task reads with .get().
ConfigEntries ==
    { [prompt |-> TRUE,  prompt_path |-> FALSE, output_path |-> FALSE],
      [prompt |-> TRUE,  prompt_path |-> FALSE, output_path |-> TRUE],
      [prompt |-> FALSE, prompt_path |-> FALSE, output_path |-> FALSE] }

\* The batches checked: up to MaxTasks entries, some of them without a prompt,
\* the others either all with or all without an output path.
BatchConfigs ==
    {c \in SeqsUpTo(ConfigEntries, MaxTasks) :
        \A i, j \in 1..Len(c) :
            (c[i].prompt /\ c[j].prompt) => (c[i].output_path = c[j].output_path)}

NTasks == Len(config)
TaskIds == 1..NTasks

\* session.new_page(): the browser hands out a page no other task holds.  The
\* page is named after the task whose call created it; 0 names the page the
\* session itself opened in start().
NewPage(t) == t
SessionPage == 0

\* Positions of a run_task coroutine inside `async with semaphore:`.
InSection == {"new_page", "on_page"}

\* Semaphore.release(): the permit goes to the first waiter, if any.
ReleasedPermits == IF waiters = <<>> THEN permits + 1 ELSE permits
ReleasedWaiters == IF waiters = <<>> THEN waiters ELSE Tail(waiters)
ReleasedPc(pcs) ==
    IF waiters = <<>> THEN pcs ELSE [pcs EXCEPT ![Head(waiters)] = "woken"]

\* (mutant) acquire() that never blocks.
MutSemaphoreFree == TRUE

\* Semaphore.acquire() returns at once iff the semaphore is not locked.
SemaphoreFree == permits > 0

\* (mutant) a coroutine that raises keeps its permit.
MutTaskRaises(t) ==
    /\ taskPc' = [taskPc EXCEPT ![t] = "failed"]
    /\ taskOutcome' = [taskOutcome EXCEPT ![t] = <<"exc", t>>]
    /\ permits' = permits
    /\ waiters' = waiters
    /\ doneOrder' = Append(doneOrder, t)
    /\ gatherExc' = IF mainPc = "gathering" /\ gatherExc = 0 THEN t ELSE gatherExc

\* A run_task coroutine ends by raising: the semaphore is released and
\* gather() is completed with the first exception any task raises.  The batch
\* does not look at the kind of an exception, so an exception is named after
\* the task that raised it; SpecRun has the kinds.
TaskRaises(t) ==
    /\ taskPc' = ReleasedPc([taskPc EXCEPT ![t] = "failed"])
    /\ taskOutcome' = [taskOutcome EXCEPT ![t] = <<"exc", t>>]
    /\ permits' = ReleasedPermits
    /\ waiters' = ReleasedWaiters
    /\ doneOrder' = Append(doneOrder, t)
    /\ gatherExc' = IF mainPc = "gathering" /\ gatherExc = 0 THEN t ELSE gatherExc

\* create_session: session.start(), then the body of multi up to the await
\* of gather(), which creates one task per config entry.
MultiStart ==
    /\ mainPc = "start"
    /\ \/ /\ sessionState' = "open"
          /\ mainPc' = "gathering"
          /\ returned' = returned
       \/ \* start() failed: it closes what it opened and raises BrowserError
          /\ sessionState' = "closed"
          /\ mainPc' = "raised"
          /\ returned' = <<"browser_error">>
    /\ UNCHANGED <<runVars, authVars, helperVars, config, taskPc, taskOutcome, taskPage, permits, waiters,
                   doneOrder, gatherExc>>

\* The first step of run_task: `async with semaphore`, then the call of
\* session.new_page().  The tasks exist once gather() was called, and the
\* event loop runs their first steps in creation order.
TaskStart(t) ==
    /\ mainPc # "start"
    /\ returned[1] # "browser_error"
    /\ taskPc[t] = "start"
    /\ \A j \in TaskIds : j < t => taskPc[j] # "start"
    /\ IF SemaphoreFree
       THEN /\ permits' = permits - 1
            /\ taskPc' = [taskPc EXCEPT ![t] = "new_page"]
            /\ waiters' = waiters
       ELSE /\ waiters' = Append(waiters, t)
            /\ taskPc' = [taskPc EXCEPT ![t] = "waiting"]
            /\ permits' = permits
    /\ UNCHANGED <<runVars, authVars, helperVars, config, mainPc, taskOutcome, taskPage, doneOrder,
                   sessionState, gatherExc, returned>>

\* A waiter that was handed a permit resumes and calls session.new_page().
TaskResume(t) ==
    /\ taskPc[t] = "woken"
    /\ taskPc' = [taskPc EXCEPT ![t] = "new_page"]
    /\ UNCHANGED <<runVars, authVars, helperVars, config, mainPc, taskOutcome, taskPage, permits, waiters,
                   doneOrder, sessionState, gatherExc, returned>>

\* (mutant) run_task hands the session's own page to the sequencer.
MutTaskPageAcquired(t) ==
    /\ taskPc[t] = "new_page"
    /\ sessionState = "open"
    /\ IF config[t].prompt_path \/ config[t].prompt
       THEN /\ taskPage' = [taskPage EXCEPT ![t] = SessionPage]
            /\ taskPc' = [taskPc EXCEPT ![t] = "on_page"]
            /\ UNCHANGED <<taskOutcome, permits, waiters, doneOrder, gatherExc>>
       ELSE /\ TaskRaises(t)
            /\ taskPage' = taskPage
    /\ UNCHANGED <<runVars, authVars, helperVars, config, mainPc, sessionState, returned>>

\* session.new_page() returns: prompt assembly, then the call of the sequencer.
TaskPageAcquired(t) ==
    /\ taskPc[t] = "new_page"
    /\ sessionState = "open"
    /\ IF config[t].prompt_path \/ config[t].prompt
       THEN /\ taskPage' = [taskPage EXCEPT ![t] = NewPage(t)]
            /\ taskPc' = [taskPc EXCEPT ![t] = "on_page"]
            /\ UNCHANGED <<taskOutcome, permits, waiters, doneOrder, gatherExc>>
       ELSE /\ TaskRaises(t)
            /\ taskPage' = taskPage
    /\ UNCHANGED <<runVars, authVars, helperVars, config, mainPc, sessionState, returned>>

\* session.new_page() raises.
TaskPageFails(t) ==
    /\ taskPc[t] = "new_page"
    /\ TaskRaises(t)
    /\ UNCHANGED <<runVars, authVars, helperVars, config, mainPc, taskPage, sessionState, returned>>

\* The sequencer returns its text: the output file is written when asked for.
TaskOnPageReturns(t) ==
    /\ taskPc[t] = "on_page"
    /\ sessionState = "open"
    /\ taskPc' = ReleasedPc([taskPc EXCEPT ![t] = "done"])
    /\ taskOutcome' = [taskOutcome EXCEPT
                         ![t] = IF config[t].output_path THEN <<"path", t>> ELSE <<"text", t>>]
    /\ permits' = ReleasedPermits
    /\ waiters' = ReleasedWaiters
    /\ doneOrder' = Append(doneOrder, t)
    /\ UNCHANGED <<runVars, authVars, helperVars, config, mainPc, taskPage, sessionState, gatherExc, returned>>

\* The sequencer raises.
TaskOnPageRaises(t) ==
    /\ taskPc[t] = "on_page"
    /\ TaskRaises(t)
    /\ UNCHANGED <<runVars, authVars, helperVars, config, mainPc, taskPage, sessionState, returned>>

\* (mutant) results collected as the tasks finish.
MutGatherResults == [i \in TaskIds |-> taskOutcome[doneOrder[i]]]

\* asyncio.gather(*tasks): the results in the order of the awaitables.
GatherResults == [i \in TaskIds |-> taskOutcome[i]]

\* gather() completes: with the list once every task has returned, with the
\* first exception as soon as one task has raised.  Leaving the `async with`
\* enters the finally of create_session.
GatherCompletes ==
    /\ mainPc = "gathering"
    /\ \/ /\ gatherExc = 0
          /\ \A t \in TaskIds : taskPc[t] = "done"
          /\ returned' = <<"pending", GatherResults>>
       \/ /\ gatherExc # 0
          /\ returned' = <<"pending", gatherExc>>
    /\ mainPc' = "exiting"
    /\ UNCHANGED <<runVars, authVars, helperVars, config, taskPc, taskOutcome, taskPage, permits, waiters,
                   doneOrder, sessionState, gatherExc>>

\* finally: await session.close() starts closing page, context and browser.
SessionCloseBegin ==
    /\ mainPc = "exiting"
    /\ sessionState' = "closing"
    /\ mainPc' = "closing"
    /\ UNCHANGED <<runVars, authVars, helperVars, config, taskPc, taskOutcome, taskPage, permits, waiters,
                   doneOrder, gatherExc, returned>>

\* close() returns and multi delivers the list or the exception to its caller.
SessionCloseEnd ==
    /\ mainPc = "closing"
    /\ sessionState' = "closed"
    /\ mainPc' = IF gatherExc = 0 THEN "returned" ELSE "raised"
    /\ returned' = <<(IF gatherExc = 0 THEN "list" ELSE "raise"), returned[2]>>
    /\ UNCHANGED <<runVars, authVars, helperVars, config, taskPc, taskOutcome, taskPage, permits, waiters,
                   doneOrder, gatherExc>>

\* The components a specification does not run stay idle.
BatchIdle ==
    /\ config = <<>>
    /\ mainPc = "idle"
    /\ taskPc = <<>>
    /\ taskOutcome = <<>>
    /\ taskPage = <<>>
    /\ permits = SemaphorePermits
    /\ waiters = <<>>
    /\ doneOrder = <<>>
    /\ sessionState = "new"
    /\ gatherExc = 0
    /\ returned = <<"none">>

RunIdle ==
    /\ op = "none"
    /\ runPhase = "idle"
    /\ runPc = 0
    /\ trace = <<>>
    /\ okSteps = <<>>
    /\ clicks = <<>>
    /\ raised = "none"
    /\ raisedBy = "none"
    /\ delivered = "none"
    /\ waitEnded = "none"
    /\ dialog = [widget |-> "none", buttons |-> <<>>, probed |-> <<>>, clicked |-> <<>>,
                 clickCalls |-> 0, escaped |-> "none"]

AuthIdle ==
    /\ authVariant = "none"
    /\ authTimeout = 0
    /\ forceFailure = FALSE
    /\ now = 0
    /\ loginDeadline = 0
    /\ authPc = "idle"
    /\ authErr = "none"
    /\ pageCalls = {}
    /\ lastProbe = "none"

WaitIdle ==
    /\ waitFn = "none"
    /\ waitTimeout = 0
    /\ waitNow = 0
    /\ waitPc = "idle"
    /\ indIdx = 0
    /\ pageVisible = {}
    /\ pageContent = [id |-> 0, len |-> 0]
    /\ visibleAtCall = FALSE
    /\ firstText = [id |-> 0, len |-> 0]
    /\ firstReadAt = -1
    /\ probed = <<>>
    /\ probeErrors = FALSE
    /\ pollSleeps = FALSE
    /\ contentReads = FALSE
    /\ diagnosticReads = 0
    /\ lastProgress = 0
    /\ progressObs = "none"
    /\ waitResult = "none"

ResolveIdle ==
    /\ resFn = "none"
    /\ candidates = <<>>
    /\ resPc = "idle"
    /\ resIdx = 0
    /\ resProbed = <<>>
    /\ element = 0
    /\ resUsed = <<>>
    /\ resOutcome = "none"

PromptIdle ==
    /\ entry = "none"
    /\ argPrompt = [given |-> FALSE, text |-> <<>>]
    /\ argFile = [given |-> FALSE, text |-> <<>>]
    /\ argOutput = FALSE
    /\ promptPc = "idle"
    /\ providerPrompt = [called |-> FALSE, text |-> <<>>]
    /\ filled = [done |-> FALSE, text |-> <<>>]
    /\ providerResult = <<>>
    /\ written = [done |-> FALSE, text |-> <<>>]
    /\ promptReturned = <<"none">>

SessionIdle ==
    /\ sessUsage = "direct"
    /\ sessPc = "idle"
    /\ handles = {}
    /\ live = {}
    /\ lifecycle = "new"
    /\ got = "none"
    /\ closeCalls = 0
    /\ sessCalls = 0
    /\ scopeExit = "none"

ExtractIdle ==
    /\ extractFn = "none"
    /\ extractPc = "idle"
    /\ researchPage = <<>>
    /\ bodyHtml = [state |-> "absent", html |-> <<>>]
    /\ contentHtml = <<>>
    /\ outputContent = <<>>
    /\ thinkingContent = <<>>
    /\ sourcesContent = <<>>
    /\ simpleResult = <<"none">>
    /\ containerSeen = FALSE
    /\ fallbackUsable = FALSE
    /\ extractResult = <<"none">>
    /\ toggleLabel = <<>>
    /\ openAtCall = FALSE
    /\ panelOpen = FALSE
    /\ toggleClicks = 0

CleanIdle ==
    /\ cleanPc = "idle"
    /\ markdown = <<>>
    /\ lines = <<>>
    /\ cleanIdx = 0
    /\ cleanedLines = <<>>
    /\ cleanResult = <<>>

LinkIdle ==
    /\ linkFn = "none"
    /\ linkPc = "idle"
    /\ cards = <<>>
    /\ cardIdx = 0
    /\ sourcesList = <<>>

ContentIdle ==
    /\ SessionIdle
    /\ ExtractIdle
    /\ CleanIdle
    /\ LinkIdle

CoreIdle ==
    /\ BatchIdle
    /\ RunIdle
    /\ AuthIdle
    /\ WaitIdle
    /\ ResolveIdle
    /\ PromptIdle

HelpersIdle ==
    /\ WaitIdle
    /\ ResolveIdle
    /\ PromptIdle
    /\ ContentIdle

BatchInit ==
    /\ RunIdle
    /\ AuthIdle
    /\ HelpersIdle
    /\ config \in BatchConfigs
    /\ mainPc = "start"
    /\ taskPc = [t \in 1..Len(config) |-> "start"]
    /\ taskOutcome = [t \in 1..Len(config) |-> <<"none", t>>]
    /\ taskPage = [t \in 1..Len(config) |-> 0]
    /\ permits = SemaphorePermits
    /\ waiters = <<>>
    /\ doneOrder = <<>>
    /\ sessionState = "new"
    /\ gatherExc = 0
    /\ returned = <<"none">>

BatchNext ==
    \/ MultiStart
    \/ \E t \in TaskIds : TaskStart(t)
    \/ \E t \in TaskIds : TaskResume(t)
    \/ \E t \in TaskIds : TaskPageAcquired(t)
    \/ \E t \in TaskIds : TaskPageFails(t)
    \/ \E t \in TaskIds : TaskOnPageReturns(t)
    \/ \E t \in TaskIds : TaskOnPageRaises(t)
    \/ GatherCompletes
    \/ SessionCloseBegin
    \/ SessionCloseEnd

SpecBatch == BatchInit /\ [][BatchNext]_vars

----------------------------------------------------------------------------
\* Properties of the batch coordinator.

\* The outcome of a config entry whose sequencer run returned.
EntryOutcome(i) == IF config[i].output_path THEN <<"path", i>> ELSE <<"text", i>>

TasksInSection == {t \in TaskIds : taskPc[t] \in InSection}
TasksOnPage == {t \in TaskIds : taskPc[t] = "on_page"}

\* C1: the list google_gemini_deep_research_multi returns has one element
\* per config entry, and its i-th element is the outcome of the i-th entry,
\* whatever the order in which the tasks finished.
C1_ResultsInInputOrder ==
    returned[1] = "list" =>
        /\ DOMAIN returned[2] = TaskIds
        /\ \A i \in TaskIds : returned[2][i] = EntryOutcome(i)

\* A list of three or more results was returned after task 2 finished first
\* and task 1 last.
C1_Witness ==
    /\ returned[1] = "list"
    /\ NTasks >= 3
    /\ doneOrder[1] = 2
    /\ doneOrder[NTasks] = 1

\* C2: at most SemaphorePermits tasks are inside the semaphore-guarded
\* section at any moment, a permit is held by every task inside it, and a
\* task waits for a permit only while all permits are taken.
C2_AtMostThreeInSection ==
    /\ Cardinality(TasksInSection) <= SemaphorePermits
    /\ permits >= 0
    /\ permits + Cardinality({t \in TaskIds : taskPc[t] \in InSection \cup {"woken"}})
           = SemaphorePermits
    /\ (\E t \in TaskIds : taskPc[t] = "waiting") => permits = 0

\* Three tasks are inside the section while a fourth waits for a permit.
C2_Witness ==
    /\ Cardinality(TasksInSection) = SemaphorePermits
    /\ \E t \in TaskIds : taskPc[t] = "waiting"

C4_SiblingOutcomesDelivered ==
    \A t \in TaskIds :
        (mainPc \in {"returned", "raised"} /\ taskOutcome[t][1] = "exc" /\ NTasks >= 2) =>
            /\ returned[1] = "list"
            /\ \A u \in TaskIds \ {t} : returned[2][u][1] \in {"text", "path", "exc"}

\* C5 (as claimed): session.close() never starts while a task of the batch
\* is still driving its page.
C5_CloseAfterAllTasks ==
    sessionState \in {"closing", "closed"} => TasksOnPage = {}

----------------------------------------------------------------------------
\* The single-shot operations: google_gemini_deep_research (which runs
\* _google_gemini_deep_research_on_page), google_gemini_ask_deep_think,
\* google_gemini_generate_image and google_gemini_ask.  One operation runs
\* alone on the session's page, so a step is one awaited call of its body.

Ops == {"deep_research", "deep_think", "generate_image", "ask"}

\* (mutant) the completion wait and the extraction in the wrong order.
MutDeepResearchSteps ==
    << "goto", "ensure_authenticated", "_enter_prompt", "_activate_deep_research",
       "_click_send_button", "_handle_confirmation_dialog",
       "extract_research_content", "_wait_for_completion" >>

\* The awaited calls of _google_gemini_deep_research_on_page, in statement order.
DeepResearchSteps ==
    << "goto", "ensure_authenticated", "_enter_prompt", "_activate_deep_research",
       "_click_send_button", "_handle_confirmation_dialog",
       "_wait_for_completion", "extract_research_content" >>

\* (mutant) the mode is activated only after the request was sent.
MutDeepThinkSteps ==
    << "goto", "ensure_authenticated", "_enter_prompt", "_click_send_button",
       "_activate_deep_think", "_wait_for_completion", "extract_research_content" >>

\* The awaited calls of google_gemini_ask_deep_think, in statement order.
DeepThinkSteps ==
    << "goto", "ensure_authenticated", "_activate_deep_think", "_enter_prompt",
       "_click_send_button", "_wait_for_completion", "extract_research_content" >>

\* The awaited calls of google_gemini_generate_image, in statement order.
GenerateImageSteps ==
    << "goto", "ensure_authenticated", "_activate_image_generation", "_enter_prompt",
       "_click_send_button", "_wait_for_image_generation", "_download_generated_image" >>

\* (mutant) a mode activation copied into the plain question.
MutAskSteps ==
    << "goto", "ensure_authenticated", "_enter_prompt", "_activate_deep_think",
       "_click_send_button", "_wait_for_sources_button", "_extract_enhanced_response" >>

\* The awaited calls of google_gemini_ask, in statement order.
AskSteps ==
    << "goto", "ensure_authenticated", "_enter_prompt", "_click_send_button",
       "_wait_for_sources_button", "_extract_enhanced_response" >>

StepsOf(o) ==
    CASE o = "deep_research" -> DeepResearchSteps
      [] o = "deep_think" -> DeepThinkSteps
      [] o = "generate_image" -> GenerateImageSteps
      [] o = "ask" -> AskSteps
      [] OTHER -> <<>>

CurrentStep ==
    IF runPhase = "running" /\ runPc \in 1..Len(StepsOf(op)) THEN StepsOf(op)[runPc] ELSE "none"

\* (mutant) the exception leaves the operation as it was raised.
MutReportedKind(kind) == kind

\* The except clauses every public operation ends with: a Playwright timeout
\* becomes PlayPiTimeoutError, every other exception becomes ProviderError.
ReportedKind(kind) ==
    IF kind = "PlaywrightTimeoutError" THEN "PlayPiTimeoutError" ELSE "ProviderError"

\* The current step returns, having clicked `newClicks`; the body goes on to
\* its next statement, or returns after the last one.
StepReturns(newClicks) ==
    /\ trace' = Append(trace, CurrentStep)
    /\ okSteps' = Append(okSteps, CurrentStep)
    /\ clicks' = clicks \o newClicks
    /\ runPc' = runPc + 1
    /\ runPhase' = IF runPc = Len(StepsOf(op)) THEN "returning" ELSE "running"
    /\ UNCHANGED <<op, raised, raisedBy, delivered>>

\* The current step raises `kind`, having clicked `newClicks`: the exception
\* leaves the body, no statement after the call runs.
StepRaises(kind, newClicks) ==
    /\ trace' = Append(trace, CurrentStep)
    /\ clicks' = clicks \o newClicks
    /\ raised' = kind
    /\ raisedBy' = CurrentStep
    /\ runPhase' = "raising"
    /\ UNCHANGED <<op, runPc, okSteps, delivered>>

\* create_session: session.start() and the page of the session.
RunStart ==
    /\ runPhase = "new"
    /\ \/ /\ runPhase' = "running"
          /\ runPc' = 1
          /\ UNCHANGED <<raised, raisedBy>>
       \/ \* start() raises BrowserError
          /\ runPhase' = "raising"
          /\ raised' = "BrowserError"
          /\ raisedBy' = "create_session"
          /\ runPc' = runPc
    /\ UNCHANGED <<batchVars, authVars, helperVars, op, trace, okSteps, clicks, delivered,
                   waitEnded, dialog>>

\* page.goto(url, timeout=30000)
Goto ==
    /\ CurrentStep = "goto"
    /\ \/ StepReturns(<<>>)
       \/ \E kind \in {"PlaywrightTimeoutError", "PlaywrightError"} : StepRaises(kind, <<>>)
    /\ UNCHANGED <<batchVars, authVars, helperVars, waitEnded, dialog>>

\* ensure_authenticated(page, timeout): only probes the page.
EnsureAuthenticated ==
    /\ CurrentStep = "ensure_authenticated"
    /\ \/ StepReturns(<<>>)
       \/ \E kind \in {"AuthenticationError", "PlaywrightError"} : StepRaises(kind, <<>>)
    /\ UNCHANGED <<batchVars, authVars, helperVars, waitEnded, dialog>>

\* _enter_prompt: clicks the textbox and fills it; every failure is ProviderError.
EnterPrompt ==
    /\ CurrentStep = "_enter_prompt"
    /\ \/ StepReturns(<<"textbox">>)
       \/ StepRaises("ProviderError", <<>>)
       \/ StepRaises("ProviderError", <<"textbox">>)
    /\ UNCHANGED <<batchVars, authVars, helperVars, waitEnded, dialog>>

\* _activate_deep_research, _activate_deep_think, _activate_image_generation:
\* click Tools, then the mode's button; every failure is ProviderError.
ActivateOutcome ==
    \/ StepReturns(<<"Tools", "mode_button">>)
    \/ StepRaises("ProviderError", <<>>)
    \/ StepRaises("ProviderError", <<"Tools">>)

ActivateDeepResearch ==
    /\ CurrentStep = "_activate_deep_research"
    /\ ActivateOutcome
    /\ UNCHANGED <<batchVars, authVars, helperVars, waitEnded, dialog>>

ActivateDeepThink ==
    /\ CurrentStep = "_activate_deep_think"
    /\ ActivateOutcome
    /\ UNCHANGED <<batchVars, authVars, helperVars, waitEnded, dialog>>

ActivateImageGeneration ==
    /\ CurrentStep = "_activate_image_generation"
    /\ ActivateOutcome
    /\ UNCHANGED <<batchVars, authVars, helperVars, waitEnded, dialog>>

\* _click_send_button
ClickSendButton ==
    /\ CurrentStep = "_click_send_button"
    /\ \/ StepReturns(<<"send">>)
       \/ StepRaises("ProviderError", <<>>)
    /\ UNCHANGED <<batchVars, authVars, helperVars, waitEnded, dialog>>

\* _handle_confirmation_dialog ------------------------------------------------

\* The selectors of the confirm button, in the order of the list.
ConfirmSelectors ==
    << "[data-test-id=confirm-button]", "button:has-text(Start research)",
       "button.confirm-button" >>

\* What confirmation_widget.wait_for(state="visible", timeout=20000) does.
WidgetStates == {"visible", "timeout", "error"}

\* What one candidate button does when it is tried:
\*   "timeout", "error":  candidate.wait_for raises (both are `continue`)
\*   "ok":                visible, click() succeeds
\*   "forced":            visible, click() raises, click(force=True) succeeds
\*   "fail_text":         visible, text_content() raises
\*   "fail_click":        visible, click() and click(force=True) both raise
ButtonStates == {"timeout", "error", "ok", "forced", "fail_text", "fail_click"}

\* The number of click calls made on a candidate in each state.
ClickCalls(b) ==
    CASE b \in {"forced", "fail_click"} -> 2
      [] b = "ok" -> 1
      [] OTHER -> 0

\* The dialog before _handle_confirmation_dialog ran.
NoDialog ==
    [widget |-> "none", buttons |-> <<>>, probed |-> <<>>, clicked |-> <<>>, clickCalls |-> 0,
     escaped |-> "none"]

\* The statements of _handle_confirmation_dialog that can raise.
FailurePointsOfDialog ==
    {"widget_wait", "candidate_wait", "text_content", "click", "forced_click"}

\* (mutant) the forced click, made inside an except clause, has no handler.
MutExceptClauses(point) ==
    CASE point \in {"widget_wait", "candidate_wait"} -> {"PlaywrightTimeoutError", "Exception"}
      [] point \in {"text_content", "click"} -> {"Exception"}
      [] OTHER -> {}

\* The except clauses of the try statement around each of them: the two
\* wait_for calls have `except PlaywrightTimeoutError` and `except Exception`
\* (gemini.py:875-880, 893-898); click() has `except Exception` (gemini.py:904);
\* text_content() and click(force=True) have the `except Exception` of the
\* outer try (gemini.py:910).
ExceptClauses(point) ==
    CASE point \in {"widget_wait", "candidate_wait"} -> {"PlaywrightTimeoutError", "Exception"}
      [] point \in {"text_content", "click", "forced_click"} -> {"Exception"}
      [] OTHER -> {}

\* isinstance(exc, cls) for the errors of the driver.
IsInstance(kind, cls) == cls = "Exception" \/ kind = cls

\* The exception is caught where it was raised.
Caught(kind, point) == \E cls \in ExceptClauses(point) : IsInstance(kind, cls)

\* What the widget wait raises.
WidgetFailures(w) ==
    CASE w = "timeout" -> <<[kind |-> "PlaywrightTimeoutError", point |-> "widget_wait"]>>
      [] w = "error" -> <<[kind |-> "PlaywrightError", point |-> "widget_wait"]>>
      [] OTHER -> <<>>

\* What the calls on a candidate raise, in the order of the calls.
ButtonFailures(b) ==
    CASE b = "timeout" -> <<[kind |-> "PlaywrightTimeoutError", point |-> "candidate_wait"]>>
      [] b = "error" -> <<[kind |-> "PlaywrightError", point |-> "candidate_wait"]>>
      [] b = "fail_text" -> <<[kind |-> "PlaywrightError", point |-> "text_content"]>>
      [] b = "forced" -> <<[kind |-> "PlaywrightTimeoutError", point |-> "click"]>>
      [] b = "fail_click" -> <<[kind |-> "PlaywrightTimeoutError", point |-> "click"],
                               [kind |-> "PlaywrightError", point |-> "forced_click"]>>
      [] OTHER -> <<>>

\* The first of the failures that no except clause catches ("none").
Escaping(failures) ==
    LET out == {i \in 1..Len(failures) : ~Caught(failures[i].kind, failures[i].point)}
    IN IF out = {} THEN "none"
       ELSE failures[CHOOSE i \in out : \A k \in out : i <= k].kind

\* (mutant) the probing goes on although the widget never appeared.
MutWidgetAppeared(w) == TRUE

\* The first try block: only a visible widget lets the function go on.
WidgetAppeared(w) == w = "visible"

\* (mutant) the loop goes on after a click.
MutReturnsAfter(b) == FALSE

\* The `return` after a click that succeeded.
ReturnsAfter(b) == b \in {"ok", "forced"}

\* The for loop over the selectors, from the i-th one on.
RECURSIVE ConfirmLoop(_, _, _, _, _)
ConfirmLoop(buttons, i, probedSoFar, clickedSoFar, calls) ==
    IF i > Len(ConfirmSelectors)
    THEN [probed |-> probedSoFar, clicked |-> clickedSoFar, clickCalls |-> calls,
          escaped |-> "none"]
    ELSE LET b == buttons[i]
             p == Append(probedSoFar, ConfirmSelectors[i])
             c == IF b \in {"ok", "forced"}
                  THEN Append(clickedSoFar, ConfirmSelectors[i]) ELSE clickedSoFar
             n == calls + ClickCalls(b)
         IN IF Escaping(ButtonFailures(b)) # "none"
            THEN [probed |-> p, clicked |-> c, clickCalls |-> n,
                  escaped |-> Escaping(ButtonFailures(b))]
            ELSE IF ReturnsAfter(b)
            THEN [probed |-> p, clicked |-> c, clickCalls |-> n, escaped |-> "none"]
            ELSE ConfirmLoop(buttons, i + 1, p, c, n)

\* _handle_confirmation_dialog on a page whose widget and buttons are as given.
ConfirmationDialog(w, buttons) ==
    LET done == IF WidgetAppeared(w)
                THEN ConfirmLoop(buttons, 1, <<>>, <<>>, 0)
                ELSE [probed |-> <<>>, clicked |-> <<>>, clickCalls |-> 0,
                      escaped |-> Escaping(WidgetFailures(w))]
    IN [widget |-> w, buttons |-> buttons, probed |-> done.probed,
        clicked |-> done.clicked, clickCalls |-> done.clickCalls, escaped |-> done.escaped]

\* _handle_confirmation_dialog: clicks a confirm button if the widget shows
\* one; a failure that an except clause catches is logged, one that none
\* catches leaves the function.
HandleConfirmationDialog ==
    /\ CurrentStep = "_handle_confirmation_dialog"
    /\ \E w \in WidgetStates, buttons \in [1..Len(ConfirmSelectors) -> ButtonStates] :
          /\ dialog' = ConfirmationDialog(w, buttons)
          /\ IF dialog'.escaped = "none"
             THEN StepReturns([i \in 1..Len(dialog'.clicked) |-> "confirm"])
             ELSE StepRaises(dialog'.escaped, [i \in 1..Len(dialog'.clicked) |-> "confirm"])
    /\ UNCHANGED <<batchVars, authVars, helperVars, waitEnded>>

\* (mutant) no completion wait raises when its budget is over.
MutTimeoutRaises(step) == FALSE

\* What a completion wait does once its budget is over without a signal:
\* _wait_for_completion raises PlayPiTimeoutError (gemini.py:1048-1050),
\* _wait_for_sources_button logs and returns (gemini.py:969-975).
TimeoutRaises(step) == step = "_wait_for_completion"

\* The end of a completion wait: a signal fired, or the budget is over, or
\* (in _wait_for_completion) another error was wrapped into ProviderError.
WaitOutcome ==
    \/ /\ waitEnded' = "signal"
       /\ StepReturns(<<>>)
    \/ /\ waitEnded' = "timeout"
       /\ IF TimeoutRaises(CurrentStep)
          THEN StepRaises("PlayPiTimeoutError", <<>>)
          ELSE StepReturns(<<>>)

\* _wait_for_completion: PlayPiTimeoutError passes, anything else is ProviderError.
WaitForCompletion ==
    /\ CurrentStep = "_wait_for_completion"
    /\ \/ WaitOutcome
       \/ /\ waitEnded' = "error"
          /\ StepRaises("ProviderError", <<>>)
    /\ UNCHANGED <<batchVars, authVars, helperVars, dialog>>

\* _wait_for_sources_button: returns on completion and on timeout alike.
WaitForSourcesButton ==
    /\ CurrentStep = "_wait_for_sources_button"
    /\ WaitOutcome
    /\ UNCHANGED <<batchVars, authVars, helperVars, dialog>>

\* _wait_for_image_generation: every failure is ProviderError.
WaitForImageGeneration ==
    /\ CurrentStep = "_wait_for_image_generation"
    /\ \/ StepReturns(<<>>)
       \/ StepRaises("ProviderError", <<>>)
    /\ UNCHANGED <<batchVars, authVars, helperVars, waitEnded, dialog>>

\* extract_research_content re-raises what the page raised; html_to_markdown.
ExtractResearchContent ==
    /\ CurrentStep = "extract_research_content"
    /\ \/ StepReturns(<<>>)
       \/ StepRaises("PlaywrightError", <<>>)
    /\ UNCHANGED <<batchVars, authVars, helperVars, waitEnded, dialog>>

\* _extract_enhanced_response: may open the thinking panel and the sources
\* panel; ends in ProviderError when no content is found at all.
ExtractEnhancedResponse ==
    /\ CurrentStep = "_extract_enhanced_response"
    /\ \E opened \in {<<>>, <<"thinking">>, <<"sources">>, <<"thinking", "sources">>} :
          \/ StepReturns(opened)
          \/ StepRaises("ProviderError", opened)
    /\ UNCHANGED <<batchVars, authVars, helperVars, waitEnded, dialog>>

\* _download_generated_image: clicks the download button, moves the file.
DownloadGeneratedImage ==
    /\ CurrentStep = "_download_generated_image"
    /\ \/ StepReturns(<<"download">>)
       \/ StepRaises("PlaywrightError", <<>>)
       \/ \E kind \in {"ProviderError", "OSError"} : StepRaises(kind, <<"download">>)
    /\ UNCHANGED <<batchVars, authVars, helperVars, waitEnded, dialog>>

\* The session scope is left (session.close() in the finally of
\* create_session) and the operation returns or raises to its caller.
RunFinish ==
    /\ runPhase \in {"returning", "raising"}
    /\ delivered' = IF runPhase = "returning" THEN "result" ELSE ReportedKind(raised)
    /\ runPhase' = "finished"
    /\ UNCHANGED <<batchVars, authVars, helperVars, op, runPc, trace, okSteps, clicks, raised,
                   raisedBy, waitEnded, dialog>>

RunInit ==
    /\ BatchIdle
    /\ AuthIdle
    /\ HelpersIdle
    /\ op \in Ops
    /\ runPhase = "new"
    /\ runPc = 0
    /\ trace = <<>>
    /\ okSteps = <<>>
    /\ clicks = <<>>
    /\ raised = "none"
    /\ raisedBy = "none"
    /\ delivered = "none"
    /\ waitEnded = "none"
    /\ dialog = NoDialog

RunNext ==
    \/ RunStart
    \/ Goto
    \/ EnsureAuthenticated
    \/ EnterPrompt
    \/ ActivateDeepResearch
    \/ ActivateDeepThink
    \/ ActivateImageGeneration
    \/ ClickSendButton
    \/ HandleConfirmationDialog
    \/ WaitForCompletion
    \/ WaitForSourcesButton
    \/ WaitForImageGeneration
    \/ ExtractResearchContent
    \/ ExtractEnhancedResponse
    \/ DownloadGeneratedImage
    \/ RunFinish

SpecRun == RunInit /\ [][RunNext]_vars

----------------------------------------------------------------------------
\* Properties of the single-shot operations.

Started(step) == step \in Range(trace)
Pos(step) == IndexOf(trace, step)
ActivationSteps ==
    {"_activate_deep_research", "_activate_deep_think", "_activate_image_generation"}

\* C6: a deep-research run performs navigate, authentication check, prompt
\* entry, mode activation, send, confirmation handling, completion wait and
\* extraction in this order and each at most once; a step starts only after
\* every earlier step returned normally, and the step that raises is the last.
C6_DeepResearchOrder ==
    op = "deep_research" =>
        /\ IsPrefix(trace,
                    << "goto", "ensure_authenticated", "_enter_prompt",
                       "_activate_deep_research", "_click_send_button",
                       "_handle_confirmation_dialog", "_wait_for_completion",
                       "extract_research_content" >>)
        /\ \A i, j \in 1..Len(trace) : i # j => trace[i] # trace[j]
        /\ IF raised \in {"none", "BrowserError"}
           THEN trace = okSteps
           ELSE trace = Append(okSteps, raisedBy)
        /\ Started("extract_research_content") => "_wait_for_completion" \in Range(okSteps)

\* A deep-research run that got as far as the extraction.
C6_Witness ==
    /\ op = "deep_research"
    /\ Started("extract_research_content")
    /\ runPhase = "finished"

C8_AskNeverActivates ==
    op = "ask" =>
        /\ Range(trace) \cap ActivationSteps = {}
        /\ Range(clicks) \cap {"Tools", "mode_button"} = {}
        /\ Started("_click_send_button") =>
              /\ Pos("_enter_prompt") = Pos("ensure_authenticated") + 1
              /\ Pos("_click_send_button") = Pos("_enter_prompt") + 1

\* A plain question was sent.
C8_Witness == op = "ask" /\ "send" \in Range(clicks)

\* C10 (as claimed): google_gemini_deep_research delivers to its caller the
\* kind of failure that was raised inside the run.
C10_FailureKindPreserved ==
    (op = "deep_research" /\ runPhase = "finished"
        /\ raised \in {"AuthenticationError", "PlayPiTimeoutError", "ProviderError"}) =>
        delivered = raised

\* The steps that read the result off the page.
ExtractionSteps ==
    {"extract_research_content", "_extract_enhanced_response", "_download_generated_image"}

VisibleButtons == {i \in 1..Len(dialog.buttons) : dialog.buttons[i] \notin {"timeout", "error"}}
ClickedButtons == {i \in 1..Len(dialog.buttons) : dialog.buttons[i] \in {"ok", "forced"}}
FirstOf(S) == CHOOSE i \in S : \A j \in S : i <= j

\* C19: when the confirmation widget does not become visible,
\* _handle_confirmation_dialog returns normally, having probed no confirm
\* button and clicked nothing, and the next step of the sequencer is the
\* completion wait.
C19_MissingWidgetIsSkipped ==
    dialog.widget \in {"timeout", "error"} =>
        /\ dialog.probed = <<>>
        /\ dialog.clicked = <<>>
        /\ dialog.clickCalls = 0
        /\ "confirm" \notin Range(clicks)
        /\ "_handle_confirmation_dialog" \in Range(okSteps)
        /\ raisedBy # "_handle_confirmation_dialog"
        /\ Len(trace) > Pos("_handle_confirmation_dialog") =>
               trace[Pos("_handle_confirmation_dialog") + 1] = "_wait_for_completion"

\* The widget timed out and the completion wait was started.
C19_Witness ==
    /\ dialog.widget = "timeout"
    /\ Started("_wait_for_completion")

\* C20 (as claimed): with the widget visible, the selectors are probed in
\* list order up to the first candidate that becomes visible, that candidate
\* is clicked once, and nothing after it is probed or clicked.
C20_FirstVisibleClickedOnce ==
    (dialog.widget = "visible" /\ VisibleButtons # {}) =>
        /\ dialog.probed = SubSeq(ConfirmSelectors, 1, FirstOf(VisibleButtons))
        /\ dialog.clicked = <<ConfirmSelectors[FirstOf(VisibleButtons)]>>
        /\ dialog.clickCalls = 1

\* C20 (amended): with the widget visible, the selectors are probed in list
\* order starting with the data-test-id one, up to the first candidate that
\* becomes visible and whose click succeeds (a click that raises is retried
\* once with force=True); that candidate is the only one clicked and nothing
\* after it is probed.  A visible candidate whose text read or whose two
\* click attempts raise is passed over; when no click succeeds every
\* selector was probed and nothing was clicked.
C20_FirstClickableClickedOnce ==
    dialog.widget = "visible" =>
        /\ IsPrefix(dialog.probed, ConfirmSelectors)
        /\ Len(dialog.probed) >= 1 /\ dialog.probed[1] = "[data-test-id=confirm-button]"
        /\ IF ClickedButtons # {}
           THEN /\ dialog.probed = SubSeq(ConfirmSelectors, 1, FirstOf(ClickedButtons))
                /\ dialog.clicked = <<ConfirmSelectors[FirstOf(ClickedButtons)]>>
                /\ Len(SelectSeq(clicks, LAMBDA c : c = "confirm")) = 1
           ELSE /\ dialog.probed = ConfirmSelectors
                /\ dialog.clicked = <<>>
                /\ "confirm" \notin Range(clicks)

\* The first selector timed out and the second one was clicked.
C20_Witness ==
    /\ dialog.widget = "visible"
    /\ dialog.buttons[1] = "timeout"
    /\ dialog.buttons[2] = "ok"
    /\ "confirm" \in Range(clicks)

----------------------------------------------------------------------------
\* The login wait: ensure_authenticated (auth.py) and its older copy
\* _ensure_authenticated (google.py), on a clock of whole seconds.

AuthVariants == {"gemini", "legacy"}

\* The overall timeouts tried, in seconds.
AuthTimeouts == {0, 1, 30, 59, 60, 61, 600}

\* min(timeout, 60): the cap of the login wait.
LoginWaitCap == 60

\* wait_for_load_state("networkidle", timeout=...), in seconds.
GeminiLoadTimeout == 5
LegacyLoadTimeout == 10

\* asyncio.sleep(...) at the end of an iteration.
GeminiSleep == 1
LegacySleep == 2

LoadTimeout(v) == IF v = "gemini" THEN GeminiLoadTimeout ELSE LegacyLoadTimeout
SleepSeconds(v) == IF v = "gemini" THEN GeminiSleep ELSE LegacySleep

\* (mutant) the login wait lasts the whole overall timeout.
MutLoginWait(timeout) == timeout

\* login_deadline = loop.time() + min(timeout, 60)
LoginWait(timeout) == Min(timeout, LoginWaitCap)

\* The call: the forced failure of auth.py, else the deadline is set.
AuthCall ==
    /\ authPc = "call"
    /\ IF forceFailure /\ authVariant = "gemini"
       THEN /\ authPc' = "raised"
            /\ authErr' = "AuthenticationError"
            /\ loginDeadline' = loginDeadline
       ELSE /\ authPc' = "load"
            /\ loginDeadline' = now + LoginWait(authTimeout)
            /\ authErr' = authErr
    /\ UNCHANGED <<batchVars, runVars, helperVars, authVariant, authTimeout, forceFailure, now,
                   pageCalls, lastProbe>>

\* page.wait_for_load_state: returns after d seconds, or times out at its
\* limit (caught and logged), or raises another error, which is not caught.
AuthLoadState ==
    /\ authPc = "load"
    /\ pageCalls' = pageCalls \cup {"wait_for_load_state"}
    /\ lastProbe' = "pending"
    /\ \/ \E d \in 0..LoadTimeout(authVariant) :
             /\ now' = now + d
             /\ authPc' = "probe"
             /\ authErr' = authErr
       \/ /\ authPc' = "raised"
          /\ authErr' = "PlaywrightError"
          /\ now' = now
    /\ UNCHANGED <<batchVars, runVars, helperVars, authVariant, authTimeout, forceFailure, loginDeadline>>

\* What has_chat_interface meets: a textbox, none, or an error of the locator.
ProbeOutcomes == {"found", "absent", "error"}

\* count_value > 0; `except Exception: return False`.
HasChatInterface(outcome) == outcome = "found"

\* (mutant) an iteration that clicks on the page when no textbox is there.
MutIterationCalls(found) ==
    IF found THEN {"locator", "count"} ELSE {"locator", "count", "url", "click"}

\* The calls on the page after the load-state wait of one iteration:
\* page.locator('[role="textbox"]') and count(), then page.url when the
\* textbox is not there.
IterationCalls(found) ==
    IF found THEN {"locator", "count"} ELSE {"locator", "count", "url"}

\* (mutant) the deadline is tested whatever the probe found.
MutDeadlineRaises(found, time, deadline) == time > deadline

\* `if await has_chat_interface(page): return` comes first; the deadline is
\* tested in an iteration that did not return.
DeadlineRaises(found, time, deadline) == ~found /\ time > deadline

\* has_chat_interface, then the deadline check of the same iteration.
AuthProbe ==
    /\ authPc = "probe"
    /\ \E outcome \in ProbeOutcomes :
          LET found == HasChatInterface(outcome) IN
          /\ lastProbe' = outcome
          /\ pageCalls' = pageCalls \cup IterationCalls(found)
          /\ IF DeadlineRaises(found, now, loginDeadline)
             THEN /\ authPc' = "raised"
                  /\ authErr' = "AuthenticationError"
             ELSE /\ authPc' = IF found THEN "returned" ELSE "sleep"
                  /\ authErr' = authErr
    /\ UNCHANGED <<batchVars, runVars, helperVars, authVariant, authTimeout, forceFailure, now,
                   loginDeadline>>

\* asyncio.sleep at the end of the iteration.
AuthSleep ==
    /\ authPc = "sleep"
    /\ now' = now + SleepSeconds(authVariant)
    /\ authPc' = "load"
    /\ UNCHANGED <<batchVars, runVars, helperVars, authVariant, authTimeout, forceFailure,
                   loginDeadline, authErr, pageCalls, lastProbe>>

AuthInit ==
    /\ BatchIdle
    /\ RunIdle
    /\ HelpersIdle
    /\ authVariant \in AuthVariants
    /\ authTimeout \in AuthTimeouts
    /\ forceFailure \in BOOLEAN
    /\ now = 0
    /\ loginDeadline = 0
    /\ authPc = "call"
    /\ authErr = "none"
    /\ pageCalls = {}
    /\ lastProbe = "none"

AuthNext ==
    \/ AuthCall
    \/ AuthLoadState
    \/ AuthProbe
    \/ AuthSleep

SpecAuth == AuthInit /\ [][AuthNext]_vars

----------------------------------------------------------------------------
\* Properties of the login wait.

\* One poll cycle: the load-state wait and the sleep of an iteration.
PollCycle(v) == LoadTimeout(v) + SleepSeconds(v)

\* C9: when the chat textbox never appears, AuthenticationError is raised no
\* later than min(timeout, 60) seconds plus one poll cycle after the call,
\* whatever the overall timeout.
C9_AuthErrorWithinLoginCap ==
    (authPc = "raised" /\ authErr = "AuthenticationError") =>
        /\ now <= Min(authTimeout, LoginWaitCap) + PollCycle(authVariant)
        /\ now <= LoginWaitCap + PollCycle(authVariant)

\* With an overall timeout of 600 the error is raised once 60 seconds are over.
C9_Witness ==
    /\ authPc = "raised"
    /\ authErr = "AuthenticationError"
    /\ authTimeout = 600
    /\ now > LoginWaitCap

----------------------------------------------------------------------------
\* The completion detectors: _wait_for_completion (deep research, deep think)
\* and _wait_for_sources_button (ask), on a clock of half seconds.  Probing
\* the page takes no time; the page changes while the detector sleeps.

\* The largest timeouts tried, in seconds.
MaxWaitTimeout == 6
MaxSourcesTimeout == 3

\* A timeout of _wait_for_completion that is long enough for two progress
\* reports, in seconds.
LongWaitTimeout == 65

\* `if current_time - last_progress_time >= 30`
ReportInterval == 30

\* await asyncio.sleep(5) at the end of an iteration of _wait_for_completion
PollInterval == 5

\* await asyncio.sleep(5) once completion was found
RenderDelay == 5

\* check_interval = 0.5, in half seconds
CheckIntervalTicks == 1

\* await asyncio.sleep(2) between the two reads of the response text
StabilityDelay == 2

\* len(content_text.strip()) > 50
SourcesMinLength == 50

RESEARCH_CONTENT_MIN_LENGTH == 50000

WaitFns == {"_wait_for_completion", "_wait_for_sources_button"}

\* Seconds as half seconds.
Ticks(seconds) == 2 * seconds

\* completion_indicators and completion_selectors, by position in the list.
NumIndicators(fn) == IF fn = "_wait_for_completion" THEN 4 ELSE 5
Indicators(fn) == 1..NumIndicators(fn)

WaitTimeouts(fn) ==
    IF fn = "_wait_for_completion" THEN 0..MaxWaitTimeout \cup {LongWaitTimeout}
    ELSE 0..MaxSourcesTimeout

\* What the detector can read: for _wait_for_completion the length of
\* page.content(), at and just above the threshold; for
\* _wait_for_sources_button the text of the first message-content (id 0: no
\* element or no text), with the length of the stripped text.
Contents(fn) ==
    IF fn = "_wait_for_completion"
    THEN {[id |-> 1, len |-> RESEARCH_CONTENT_MIN_LENGTH],
          [id |-> 1, len |-> RESEARCH_CONTENT_MIN_LENGTH + 1]}
    ELSE {[id |-> 0, len |-> 0],
          [id |-> 1, len |-> SourcesMinLength],
          [id |-> 1, len |-> SourcesMinLength + 1],
          [id |-> 2, len |-> SourcesMinLength + 1]}

NoText == [id |-> 0, len |-> 0]

\* (mutant) a loop that runs one poll interval longer.
MutBudgetLeft(elapsed, timeout) == elapsed < Ticks(timeout) + Ticks(PollInterval) + 1

\* (loop.time() - start_time) < timeout
BudgetLeft(elapsed, timeout) == elapsed < Ticks(timeout)

\* (mutant) the indicators are never seen.
MutIndicatorFound(i, visible) == FALSE

\* is_visible() of the i-th indicator, count() > 0 of the i-th selector
IndicatorFound(i, visible) == i \in visible

\* content_text and len(content_text.strip()) > 50
Substantial(text) == text.id # 0 /\ text.len > SourcesMinLength

\* (mutant) the second read is not compared.
MutTextStable(new, old) == TRUE

\* new_content == content_text
TextStable(new, old) == new = old

\* (mutant) the content fallback accepts any page.
MutContentSuffices(length) == TRUE

\* content_length > RESEARCH_CONTENT_MIN_LENGTH
ContentSuffices(length) == length > RESEARCH_CONTENT_MIN_LENGTH

\* The page after the detector slept.
PageChanges ==
    /\ pageVisible' \in SUBSET Indicators(waitFn)
    /\ pageContent' \in Contents(waitFn)

\* gemini.py:1000: a progress report is due.
ProgressDue(current, last) == current - last >= Ticks(ReportInterval)

\* What the probes of a progress report find (gemini.py:1005-1019): nothing,
\* the steps of the plan, a status text, both, or an error of the driver.
ProgressObservations == {"nothing", "steps", "status", "steps and status", "error"}

\* (mutant) a progress report that ends the iteration.
MutAfterProgress == "sleep"

\* gemini.py:1021-1022: after the progress report the iteration goes on with
\* the completion indicators.
AfterProgress == "indicator"

\* (mutant) a sources wait that returns at once when its budget is over.
MutAfterTimeout == "returned"

\* gemini.py:969-975: after its loop _wait_for_sources_button logs the
\* timeout and looks at the page content.
AfterTimeout == "diagnostics"

\* The loop condition.  _wait_for_completion leaves the loop for the content
\* fallback; _wait_for_sources_button logs the timeout, then reads the page
\* content for its log and returns.
WaitLoopTest ==
    /\ waitPc = "loop"
    /\ IF BudgetLeft(waitNow, waitTimeout)
       THEN /\ IF waitFn = "_wait_for_completion" /\ ProgressDue(waitNow, lastProgress)
               THEN waitPc' = "progress" /\ indIdx' = 0
               ELSE waitPc' = "indicator" /\ indIdx' = 1
            /\ waitResult' = waitResult
       ELSE /\ indIdx' = 0
            /\ IF waitFn = "_wait_for_completion"
               THEN waitPc' = "fallback" /\ waitResult' = waitResult
               ELSE waitPc' = AfterTimeout /\ waitResult' = "timeout"
    /\ probed' = <<>>
    /\ firstText' = NoText
    /\ firstReadAt' = -1
    /\ UNCHANGED <<batchVars, runVars, authVars, contentVars, resolveVars, promptVars, diagnosticReads, lastProgress, progressObs, waitFn, waitTimeout, waitNow, pageVisible,
                   pageContent, visibleAtCall, probeErrors, pollSleeps, contentReads>>

\* After the last indicator of the list: the poll sleep (completion) or the
\* look at the response text (sources).
AfterIndicators == IF waitFn = "_wait_for_completion" THEN "sleep" ELSE "content"

\* One indicator is probed: the probe raises (`continue`), or it finds the
\* indicator, which ends the wait, or it does not.
WaitProbeIndicator ==
    /\ waitPc = "indicator"
    /\ probed' = Append(probed, indIdx)
    /\ \/ /\ probeErrors' = TRUE
          /\ waitPc' = IF indIdx = NumIndicators(waitFn) THEN AfterIndicators ELSE "indicator"
          /\ indIdx' = IF indIdx = NumIndicators(waitFn) THEN 0 ELSE indIdx + 1
          /\ waitResult' = waitResult
       \/ /\ probeErrors' = probeErrors
          /\ IF IndicatorFound(indIdx, pageVisible)
             THEN /\ waitResult' = "indicator"
                  /\ waitPc' = IF waitFn = "_wait_for_completion" THEN "render" ELSE "returned"
                  /\ indIdx' = indIdx
             ELSE /\ waitResult' = waitResult
                  /\ waitPc' = IF indIdx = NumIndicators(waitFn)
                               THEN AfterIndicators ELSE "indicator"
                  /\ indIdx' = IF indIdx = NumIndicators(waitFn) THEN 0 ELSE indIdx + 1
    /\ UNCHANGED <<batchVars, runVars, authVars, contentVars, resolveVars, promptVars, diagnosticReads, lastProgress, progressObs, waitFn, waitTimeout, waitNow, pageVisible,
                   pageContent, visibleAtCall, firstText, firstReadAt, pollSleeps,
                   contentReads>>

\* _wait_for_sources_button reads the response text: a substantial text is
\* read again after the stability delay; a failing read is passed over.
WaitContentRead ==
    /\ waitPc = "content"
    /\ contentReads' = TRUE
    /\ \/ /\ Substantial(pageContent)
          /\ firstText' = pageContent
          /\ firstReadAt' = waitNow
          /\ waitPc' = "stability"
       \/ /\ ~Substantial(pageContent)
          /\ waitPc' = "sleep"
          /\ UNCHANGED <<firstText, firstReadAt>>
       \/ \* count() or text_content() raises
          /\ waitPc' = "sleep"
          /\ UNCHANGED <<firstText, firstReadAt>>
    /\ UNCHANGED <<batchVars, runVars, authVars, contentVars, resolveVars, promptVars, diagnosticReads, lastProgress, progressObs, waitFn, waitTimeout, waitNow, indIdx,
                   pageVisible, pageContent, visibleAtCall, probed, probeErrors, pollSleeps,
                   waitResult>>

\* await asyncio.sleep(2)
WaitStabilitySleep ==
    /\ waitPc = "stability"
    /\ waitNow' = waitNow + Ticks(StabilityDelay)
    /\ PageChanges
    /\ waitPc' = "recheck"
    /\ UNCHANGED <<batchVars, runVars, authVars, contentVars, resolveVars, promptVars, diagnosticReads, lastProgress, progressObs, waitFn, waitTimeout, indIdx, visibleAtCall,
                   firstText, firstReadAt, probed, probeErrors, pollSleeps, contentReads,
                   waitResult>>

\* The second read: the same text ends the wait, another text or a failing
\* read goes on to the poll sleep.
WaitRecheck ==
    /\ waitPc = "recheck"
    /\ \/ /\ TextStable(pageContent, firstText)
          /\ waitPc' = "returned"
          /\ waitResult' = "content"
       \/ /\ ~TextStable(pageContent, firstText)
          /\ waitPc' = "sleep"
          /\ waitResult' = waitResult
       \/ /\ waitPc' = "sleep"
          /\ waitResult' = waitResult
    /\ UNCHANGED <<batchVars, runVars, authVars, contentVars, resolveVars, promptVars, diagnosticReads, lastProgress, progressObs, waitFn, waitTimeout, waitNow, indIdx,
                   pageVisible, pageContent, visibleAtCall, firstText, firstReadAt, probed,
                   probeErrors, pollSleeps, contentReads>>

\* The sleep at the end of an iteration.
WaitPollSleep ==
    /\ waitPc = "sleep"
    /\ waitNow' = waitNow + (IF waitFn = "_wait_for_completion"
                             THEN Ticks(PollInterval) ELSE CheckIntervalTicks)
    /\ PageChanges
    /\ pollSleeps' = TRUE
    /\ waitPc' = "loop"
    /\ UNCHANGED <<batchVars, runVars, authVars, contentVars, resolveVars, promptVars, diagnosticReads, lastProgress, progressObs, waitFn, waitTimeout, indIdx, visibleAtCall,
                   firstText, firstReadAt, probed, probeErrors, contentReads, waitResult>>

\* After the loop of _wait_for_completion ended without an indicator: the
\* length of page.content() decides; a failing read becomes ProviderError.
WaitFallback ==
    /\ waitPc = "fallback"
    /\ contentReads' = TRUE
    /\ \/ IF ContentSuffices(pageContent.len)
          THEN waitPc' = "render" /\ waitResult' = "content"
          ELSE waitPc' = "raised" /\ waitResult' = "PlayPiTimeoutError"
       \/ waitPc' = "raised" /\ waitResult' = "ProviderError"
    /\ UNCHANGED <<batchVars, runVars, authVars, contentVars, resolveVars, promptVars, diagnosticReads, lastProgress, progressObs, waitFn, waitTimeout, waitNow, indIdx,
                   pageVisible, pageContent, visibleAtCall, firstText, firstReadAt, probed,
                   probeErrors, pollSleeps>>

\* gemini.py:1000-1019: the progress report.  last_progress_time is set, the
\* steps and the status text are looked for and logged; an error of the
\* driver is passed over.
WaitProgress ==
    /\ waitPc = "progress"
    /\ lastProgress' = waitNow
    /\ progressObs' \in ProgressObservations
    /\ waitPc' = AfterProgress
    /\ indIdx' = IF AfterProgress = "indicator" THEN 1 ELSE 0
    /\ UNCHANGED <<batchVars, runVars, authVars, contentVars, resolveVars, promptVars,
                   diagnosticReads, waitFn, waitTimeout, waitNow, pageVisible, pageContent,
                   visibleAtCall, firstText, firstReadAt, probed, probeErrors, pollSleeps,
                   contentReads, waitResult>>

\* gemini.py:971-975: len(await page.content()) is logged; a read that
\* raises is logged as well, and the function returns either way.
WaitDiagnostics ==
    /\ waitPc = "diagnostics"
    /\ diagnosticReads' = diagnosticReads + 1
    /\ waitPc' = "returned"
    /\ UNCHANGED <<batchVars, runVars, authVars, contentVars, resolveVars, promptVars, lastProgress,
                   progressObs, waitFn,
                   waitTimeout, waitNow, indIdx, pageVisible, pageContent, visibleAtCall,
                   firstText, firstReadAt, probed, probeErrors, pollSleeps, contentReads,
                   waitResult>>

\* Completion was found: await asyncio.sleep(5), then the function returns.
WaitRender ==
    /\ waitPc = "render"
    /\ waitNow' = waitNow + Ticks(RenderDelay)
    /\ waitPc' = "returned"
    /\ UNCHANGED <<batchVars, runVars, authVars, contentVars, resolveVars, promptVars, diagnosticReads, lastProgress, progressObs, waitFn, waitTimeout, indIdx, pageVisible,
                   pageContent, visibleAtCall, firstText, firstReadAt, probed, probeErrors,
                   pollSleeps, contentReads, waitResult>>

WaitInit ==
    /\ BatchIdle
    /\ RunIdle
    /\ AuthIdle
    /\ ContentIdle
    /\ ResolveIdle
    /\ PromptIdle
    /\ waitFn \in WaitFns
    /\ waitTimeout \in WaitTimeouts(waitFn)
    /\ waitNow = 0
    /\ waitPc = "loop"
    /\ indIdx = 0
    /\ pageVisible \in SUBSET Indicators(waitFn)
    /\ pageContent \in Contents(waitFn)
    /\ visibleAtCall = (pageVisible # {})
    /\ firstText = NoText
    /\ firstReadAt = -1
    /\ probed = <<>>
    /\ probeErrors = FALSE
    /\ pollSleeps = FALSE
    /\ contentReads = FALSE
    /\ diagnosticReads = 0
    /\ lastProgress = 0
    /\ progressObs = "none"
    /\ waitResult = "none"

WaitNext ==
    \/ WaitLoopTest
    \/ WaitProbeIndicator
    \/ WaitContentRead
    \/ WaitStabilitySleep
    \/ WaitRecheck
    \/ WaitPollSleep
    \/ WaitProgress
    \/ WaitFallback
    \/ WaitDiagnostics
    \/ WaitRender

SpecWait == WaitInit /\ [][WaitNext]_vars

----------------------------------------------------------------------------
\* Properties of the completion detectors.

WaitEnded == waitPc \in {"returned", "raised"}

\* The indicators of the list up to the i-th, in list order.
FirstIndicators(i) == [k \in 1..i |-> k]

C13_VisibleAtCallEndsAtOnce ==
    /\ probed = FirstIndicators(Len(probed))
    /\ (visibleAtCall /\ ~probeErrors) =>
          /\ ~pollSleeps
          /\ ~contentReads
          /\ waitResult \in {"none", "indicator"}
          /\ WaitEnded => waitResult = "indicator"

\* C13 (amended): the same, for every timeout above 0.  With a timeout of 0
\* the loop body never runs: no indicator is probed, _wait_for_completion goes
\* to its content fallback and _wait_for_sources_button returns by timeout.
C13_VisibleAtCallEndsAtOncePositive ==
    /\ probed = FirstIndicators(Len(probed))
    /\ waitResult = "indicator" =>
          /\ waitPc \in {"render", "returned"}
          /\ probed[Len(probed)] \in pageVisible
          /\ ~probeErrors => \A k \in 1..(Len(probed) - 1) : probed[k] \notin pageVisible
    /\ (visibleAtCall /\ ~probeErrors /\ waitTimeout > 0) =>
          /\ ~pollSleeps
          /\ ~contentReads
          /\ waitResult \in {"none", "indicator"}
          /\ WaitEnded => waitResult = "indicator"
    /\ waitTimeout = 0 =>
          /\ probed = <<>>
          /\ waitResult # "indicator"

\* The third indicator matched at call time and ended the wait.
C13_Witness ==
    /\ visibleAtCall
    /\ ~probeErrors
    /\ waitTimeout > 0
    /\ WaitEnded
    /\ waitResult = "indicator"
    /\ probed = <<1, 2, 3>>

\* C14: _wait_for_sources_button reports completion by content only when the
\* text of the first read was longer than the minimum and the text read
\* after the stability delay is the same; when the second text differs the
\* iteration goes on to its poll sleep without reporting anything.
C14_ContentNeedsTwoEqualReads ==
    waitFn = "_wait_for_sources_button" =>
        /\ waitResult = "content" =>
              /\ waitPc = "returned"
              /\ firstText.len > SourcesMinLength
              /\ pageContent = firstText
              /\ firstReadAt >= 0
              /\ waitNow = firstReadAt + Ticks(StabilityDelay)
              /\ probed = FirstIndicators(NumIndicators(waitFn))
        /\ (firstReadAt >= 0 /\ waitNow = firstReadAt + Ticks(StabilityDelay)
                /\ pageContent # firstText) =>
              /\ waitPc \in {"recheck", "sleep"}
              /\ waitResult = "none"

\* The second read gave another text and the detector went on polling.
C14_Witness ==
    /\ waitFn = "_wait_for_sources_button"
    /\ waitPc = "sleep"
    /\ firstReadAt >= 0
    /\ waitNow = firstReadAt + Ticks(StabilityDelay)
    /\ pageContent # firstText
    /\ BudgetLeft(waitNow + CheckIntervalTicks, waitTimeout)

----------------------------------------------------------------------------
\* Selector resolution: the loops of _enter_prompt and _extract_main_output
\* over their lists of selectors.

ResolveFns == {"_enter_prompt", "_extract_main_output"}

\* The selectors of the two lists, by position.
EnterPromptSelectors ==
    << "role=textbox[name=Enter a prompt here]", "[role=textbox]",
       ".text-input-field_textarea .ql-editor", "rich-textarea .ql-editor" >>

MainOutputSelectors ==
    << "message-content.model-response-text", "message-content",
       ".model-response-text", ".markdown.markdown-main-panel" >>

SelectorsOf(fn) == IF fn = "_enter_prompt" THEN EnterPromptSelectors ELSE MainOutputSelectors

\* What wait_for(state="visible", timeout=...) of a candidate does: it
\* returns, raises PlaywrightTimeoutError, or raises another error.
CandidateStates == {"visible", "timeout", "error"}

\* (mutant) a loop that goes on after a candidate became visible.
MutEndsLoop(state) == FALSE

\* `break` in _enter_prompt, the read and `return` in _extract_main_output.
EndsLoop(state) == state = "visible"

\* One iteration: the locator is assigned, then its wait_for is awaited.  A
\* visible candidate ends the loop, a timeout goes to the next selector, any
\* other error leaves the function through its outer except.
ResolveProbe ==
    /\ resPc = "probe"
    /\ element' = resIdx
    /\ resProbed' = Append(resProbed, resIdx)
    /\ IF EndsLoop(candidates[resIdx])
       THEN /\ resPc' = IF resFn = "_enter_prompt" THEN "click" ELSE "read"
            /\ UNCHANGED <<resIdx, resOutcome>>
       ELSE IF candidates[resIdx] = "error"
       THEN /\ resPc' = "done"
            /\ resOutcome' = IF resFn = "_enter_prompt" THEN "ProviderError" ELSE "empty"
            /\ resIdx' = resIdx
       ELSE IF resIdx < Len(SelectorsOf(resFn))
       THEN /\ resIdx' = resIdx + 1
            /\ UNCHANGED <<resPc, resOutcome>>
       ELSE \* the list is exhausted: text_input is the last locator, not None
            /\ resPc' = IF resFn = "_enter_prompt" THEN "click" ELSE "simple"
            /\ UNCHANGED <<resIdx, resOutcome>>
    /\ UNCHANGED <<batchVars, runVars, authVars, contentVars, waitVars, promptVars, resFn, candidates, resUsed>>

\* await text_input.click()
ResolveClick ==
    /\ resPc = "click"
    /\ \/ /\ resUsed' = Append(resUsed, <<"click", element>>)
          /\ resPc' = "fill"
          /\ resOutcome' = resOutcome
       \/ /\ resUsed' = resUsed
          /\ resPc' = "done"
          /\ resOutcome' = "ProviderError"
    /\ UNCHANGED <<batchVars, runVars, authVars, contentVars, waitVars, promptVars, resFn, candidates, resIdx,
                   resProbed, element>>

\* await text_input.fill(prompt)
ResolveFill ==
    /\ resPc = "fill"
    /\ \/ /\ resUsed' = Append(resUsed, <<"fill", element>>)
          /\ resOutcome' = "returned"
       \/ /\ resUsed' = resUsed
          /\ resOutcome' = "ProviderError"
    /\ resPc' = "done"
    /\ UNCHANGED <<batchVars, runVars, authVars, contentVars, waitVars, promptVars, resFn, candidates, resIdx,
                   resProbed, element>>

\* await element.inner_html(), html_to_markdown
ResolveRead ==
    /\ resPc = "read"
    /\ \/ /\ resUsed' = Append(resUsed, <<"inner_html", element>>)
          /\ resOutcome' = "markdown"
       \/ /\ resUsed' = resUsed
          /\ resOutcome' = "empty"
    /\ resPc' = "done"
    /\ UNCHANGED <<batchVars, runVars, authVars, contentVars, waitVars, promptVars, resFn, candidates, resIdx,
                   resProbed, element>>

\* No selector of _extract_main_output matched: _extract_simple_response
ResolveSimple ==
    /\ resPc = "simple"
    /\ resOutcome' \in {"simple", "empty"}
    /\ resPc' = "done"
    /\ UNCHANGED <<batchVars, runVars, authVars, contentVars, waitVars, promptVars, resFn, candidates, resIdx,
                   resProbed, element, resUsed>>

ResolveInit ==
    /\ BatchIdle
    /\ RunIdle
    /\ AuthIdle
    /\ ContentIdle
    /\ WaitIdle
    /\ PromptIdle
    /\ resFn \in ResolveFns
    /\ candidates \in [1..Len(SelectorsOf(resFn)) -> CandidateStates]
    /\ resPc = "probe"
    /\ resIdx = 1
    /\ resProbed = <<>>
    /\ element = 0
    /\ resUsed = <<>>
    /\ resOutcome = "none"

ResolveNext ==
    \/ ResolveProbe
    \/ ResolveClick
    \/ ResolveFill
    \/ ResolveRead
    \/ ResolveSimple

SpecResolve == ResolveInit /\ [][ResolveNext]_vars

----------------------------------------------------------------------------
\* Properties of the selector resolution.

\* C16: the candidates are probed strictly in list order and the first one
\* that becomes visible ends the probing; in particular, when candidate 1
\* times out and candidate 2 is visible, every call made on an element
\* afterwards (click, fill, inner_html) is made on candidate 2, and
\* candidates 3 and later are never probed.
C16_FirstVisibleCandidateUsed ==
    /\ resProbed = [k \in 1..Len(resProbed) |-> k]
    /\ \A k \in 1..(Len(resProbed) - 1) : candidates[resProbed[k]] = "timeout"
    /\ \A k \in 1..Len(resProbed) :
          candidates[k] = "visible" =>
              /\ Len(resProbed) = k
              /\ element = k
              /\ \A u \in Range(resUsed) : u[2] = k
    /\ (candidates[1] = "timeout" /\ candidates[2] = "visible") =>
          /\ IsPrefix(resProbed, <<1, 2>>)
          /\ \A u \in Range(resUsed) : u[2] = 2
          /\ resOutcome \in {"returned", "markdown"} => resUsed # <<>>

\* Candidate 1 timed out, candidate 2 was visible and was filled or read.
C16_Witness ==
    /\ candidates[1] = "timeout"
    /\ candidates[2] = "visible"
    /\ candidates[3] = "visible"
    /\ resOutcome \in {"returned", "markdown"}
    /\ resProbed = <<1, 2>>

\* C30: _enter_prompt clicks and fills only a candidate whose wait_for
\* returned; when every candidate timed out it clicks and fills nothing and
\* ends with ProviderError.
C30_OnlyVisibleElementUsed ==
    resFn = "_enter_prompt" =>
        /\ \A u \in Range(resUsed) : candidates[u[2]] = "visible"
        /\ (resPc = "done" /\ \A k \in 1..Len(candidates) : candidates[k] = "timeout") =>
              resOutcome = "ProviderError"

----------------------------------------------------------------------------
\* The way of a prompt from the caller to the textbox, and of the result
\* back: google_gemini_deep_research_full, run_task of
\* google_gemini_deep_research_multi and gemi_command assemble the prompt from
\* a prompt and a prompt file and hand it to a provider; the provider hands
\* its prompt to _enter_prompt, which fills the textbox.  A text is a
\* sequence of characters.

\* The longest text tried.
MaxTextLen == 2

Chars == {"a", " ", "\n"}
Whitespace == {" ", "\n"}

Texts == SeqsUpTo(Chars, MaxTextLen)

\* The texts a provider returns.
ResultTexts == {<<>>, <<"a">>}

\* An argument that was not passed (None), and one that was.
NotGiven == [given |-> FALSE, text |-> <<>>]
Given(text) == [given |-> TRUE, text |-> text]

Assemblers == {"google_gemini_deep_research_full", "run_task", "gemi_command"}

\* A public operation called with the prompt alone.
DirectEntries == {"google_gemini_ask"}

\* `if prompt`: the argument is neither None nor the empty string.
Truthy(arg) == arg.given /\ arg.text # <<>>

\* str.rstrip(): trailing whitespace is removed.
RECURSIVE RStrip(_)
RStrip(text) ==
    IF text # <<>> /\ text[Len(text)] \in Whitespace
    THEN RStrip(SubSeq(text, 1, Len(text) - 1))
    ELSE text

\* "\n".join(parts)
RECURSIVE JoinLines(_)
JoinLines(parts) ==
    IF parts = <<>> THEN <<>>
    ELSE IF Len(parts) = 1 THEN parts[1]
    ELSE parts[1] \o <<"\n">> \o JoinLines(Tail(parts))

\* (mutant) the prompt in front of the file text.
MutFullPrompt(prompt, file) ==
    IF file.given
    THEN [ok |-> TRUE,
          text |-> IF Truthy(prompt) THEN prompt.text \o <<"\n">> \o file.text ELSE file.text]
    ELSE IF Truthy(prompt) THEN [ok |-> TRUE, text |-> prompt.text]
    ELSE [ok |-> FALSE, text |-> <<>>]

\* full_prompt of google_gemini_deep_research_full and of run_task; ok is
\* FALSE where the code raises ValueError.
FullPrompt(prompt, file) ==
    IF file.given
    THEN [ok |-> TRUE,
          text |-> IF Truthy(prompt) THEN file.text \o <<"\n">> \o prompt.text ELSE file.text]
    ELSE IF Truthy(prompt) THEN [ok |-> TRUE, text |-> prompt.text]
    ELSE [ok |-> FALSE, text |-> <<>>]

\* parts of gemi_command
GemiParts(prompt, file) ==
    (IF file.given THEN <<RStrip(file.text)>> ELSE <<>>)
        \o (IF Truthy(prompt) THEN <<prompt.text>> ELSE <<>>)

\* full_prompt of gemi_command: the empty parts are left out of the join.
GemiPrompt(prompt, file) ==
    IF GemiParts(prompt, file) = <<>> THEN [ok |-> FALSE, text |-> <<>>]
    ELSE [ok |-> TRUE,
          text |-> JoinLines(SelectSeq(GemiParts(prompt, file), LAMBDA part : part # <<>>))]

AssembledPrompt(fn, prompt, file) ==
    IF fn = "gemi_command" THEN GemiPrompt(prompt, file) ELSE FullPrompt(prompt, file)

\* (mutant) the prompt is stripped on its way to the textbox.
MutFillArgument(prompt) == RStrip(prompt)

\* _enter_prompt(page, prompt) ... await text_input.fill(prompt)
FillArgument(prompt) == prompt

\* An assembler is called: the file is read (which can fail), the prompt is
\* put together and the provider is called with it, or ValueError is raised.
PromptAssemble ==
    /\ promptPc = "call"
    /\ entry \in Assemblers
    /\ \/ /\ AssembledPrompt(entry, argPrompt, argFile).ok
          /\ providerPrompt' =
                [called |-> TRUE, text |-> AssembledPrompt(entry, argPrompt, argFile).text]
          /\ promptPc' = "provider"
          /\ promptReturned' = promptReturned
       \/ /\ ~AssembledPrompt(entry, argPrompt, argFile).ok
          /\ promptReturned' = <<"ValueError">>
          /\ promptPc' = "done"
          /\ providerPrompt' = providerPrompt
       \/ /\ argFile.given
          /\ promptReturned' = <<"OSError">>
          /\ promptPc' = "done"
          /\ providerPrompt' = providerPrompt
    /\ UNCHANGED <<batchVars, runVars, authVars, contentVars, waitVars, resolveVars, entry, argPrompt,
                   argFile, argOutput, filled, providerResult, written>>

\* A public operation is called with the prompt itself.
PublicCall ==
    /\ promptPc = "call"
    /\ entry \in DirectEntries
    /\ providerPrompt' = [called |-> TRUE, text |-> argPrompt.text]
    /\ promptPc' = "provider"
    /\ UNCHANGED <<batchVars, runVars, authVars, contentVars, waitVars, resolveVars, entry, argPrompt,
                   argFile, argOutput, filled, providerResult, written, promptReturned>>

\* The provider gets as far as _enter_prompt, which fills the textbox, or it
\* fails before.
ProviderEntersPrompt ==
    /\ promptPc = "provider"
    /\ \/ /\ filled' = [done |-> TRUE, text |-> FillArgument(providerPrompt.text)]
          /\ promptPc' = "running"
          /\ promptReturned' = promptReturned
       \/ /\ filled' = filled
          /\ promptPc' = "done"
          /\ promptReturned' = <<"ProviderError">>
    /\ UNCHANGED <<batchVars, runVars, authVars, contentVars, waitVars, resolveVars, entry, argPrompt,
                   argFile, argOutput, providerPrompt, providerResult, written>>

\* The provider returns its text, or fails.
ProviderReturns ==
    /\ promptPc = "running"
    /\ \/ /\ providerResult' \in ResultTexts
          /\ promptPc' = "output"
          /\ promptReturned' = promptReturned
       \/ /\ providerResult' = providerResult
          /\ promptPc' = "done"
          /\ promptReturned' = <<"ProviderError">>
    /\ UNCHANGED <<batchVars, runVars, authVars, contentVars, waitVars, resolveVars, entry, argPrompt,
                   argFile, argOutput, providerPrompt, filled, written>>

\* The result goes to the output path, if one was given, and the path is
\* returned; else the text is returned.
PromptOutput ==
    /\ promptPc = "output"
    /\ IF argOutput
       THEN \/ /\ written' = [done |-> TRUE, text |-> providerResult]
               /\ promptReturned' = <<"path">>
            \/ /\ written' = written
               /\ promptReturned' = <<"OSError">>
       ELSE /\ written' = written
            /\ promptReturned' = <<"text", providerResult>>
    /\ promptPc' = "done"
    /\ UNCHANGED <<batchVars, runVars, authVars, contentVars, waitVars, resolveVars, entry, argPrompt,
                   argFile, argOutput, providerPrompt, filled, providerResult>>

PromptInit ==
    /\ BatchIdle
    /\ RunIdle
    /\ AuthIdle
    /\ ContentIdle
    /\ WaitIdle
    /\ ResolveIdle
    /\ entry \in Assemblers \cup DirectEntries
    /\ IF entry \in Assemblers
       THEN /\ argPrompt \in {NotGiven} \cup {Given(t) : t \in Texts}
            /\ argFile \in {NotGiven} \cup {Given(t) : t \in Texts}
            /\ argOutput \in BOOLEAN
       ELSE /\ argPrompt \in {Given(t) : t \in Texts}
            /\ argFile = NotGiven
            /\ argOutput = FALSE
    /\ promptPc = "call"
    /\ providerPrompt = [called |-> FALSE, text |-> <<>>]
    /\ filled = [done |-> FALSE, text |-> <<>>]
    /\ providerResult = <<>>
    /\ written = [done |-> FALSE, text |-> <<>>]
    /\ promptReturned = <<"none">>

PromptNext ==
    \/ PromptAssemble
    \/ PublicCall
    \/ ProviderEntersPrompt
    \/ ProviderReturns
    \/ PromptOutput

SpecPrompt == PromptInit /\ [][PromptNext]_vars

----------------------------------------------------------------------------
\* Properties of the way of a prompt.

\* C17: the text passed to fill is the prompt the public operation was
\* called with, character by character, whatever the prompt.
C17_FilledTextIsThePrompt ==
    filled.done =>
        /\ providerPrompt.called
        /\ filled.text = providerPrompt.text
        /\ entry \in DirectEntries => filled.text = argPrompt.text
        /\ (entry \in Assemblers /\ ~argFile.given) => filled.text = argPrompt.text

\* A prompt that begins and ends with whitespace was filled in.
C17_Witness ==
    /\ entry \in DirectEntries
    /\ filled.done
    /\ filled.text = <<" ", "\n">>

\* What C18 says the provider receives.
ClaimedPrompt(prompt, file) ==
    IF file.given /\ Truthy(prompt) THEN file.text \o <<"\n">> \o prompt.text
    ELSE IF file.given THEN file.text
    ELSE prompt.text

\* What C18 says about the result: with an output path the text is written
\* there and the path is returned, without one the text is returned.
ResultDelivered ==
    /\ written.done => argOutput /\ written.text = providerResult
    /\ promptReturned[1] = "path" => argOutput /\ written.done
    /\ promptReturned[1] = "text" => ~argOutput /\ ~written.done
                                        /\ promptReturned[2] = providerResult
    /\ (promptPc = "done" /\ promptReturned[1] \notin {"path", "text"}) =>
          promptReturned[1] \in {"ValueError", "OSError", "ProviderError"}

\* C18 (as claimed): every assembler hands the provider file text + newline +
\* prompt when both are given, the file text when only the file is given and
\* the prompt when only the prompt is given; with neither it raises
\* ValueError without calling the provider.
C18_PromptAssembly ==
    entry \in Assemblers =>
        /\ providerPrompt.called =>
              /\ argFile.given \/ Truthy(argPrompt)
              /\ providerPrompt.text = ClaimedPrompt(argPrompt, argFile)
        /\ (~argFile.given /\ ~Truthy(argPrompt) /\ promptPc # "call") =>
              /\ promptReturned = <<"ValueError">>
              /\ ~providerPrompt.called
        /\ ResultDelivered

\* C18 (amended): google_gemini_deep_research_full and run_task do as
\* claimed; gemi_command strips the trailing whitespace off the file text and
\* joins the parts that are not empty with a newline.
C18_PromptAssemblyByFunction ==
    entry \in Assemblers =>
        /\ providerPrompt.called =>
              /\ argFile.given \/ Truthy(argPrompt)
              /\ entry # "gemi_command" =>
                    providerPrompt.text = ClaimedPrompt(argPrompt, argFile)
              /\ entry = "gemi_command" =>
                    providerPrompt.text =
                        IF argFile.given /\ RStrip(argFile.text) # <<>> /\ Truthy(argPrompt)
                        THEN RStrip(argFile.text) \o <<"\n">> \o argPrompt.text
                        ELSE IF Truthy(argPrompt) THEN argPrompt.text
                        ELSE RStrip(argFile.text)
        /\ (~argFile.given /\ ~Truthy(argPrompt) /\ promptPc # "call") =>
              /\ promptReturned = <<"ValueError">>
              /\ ~providerPrompt.called
        /\ promptReturned = <<"ValueError">> => ~argFile.given /\ ~Truthy(argPrompt)
        /\ ResultDelivered

\* google_gemini_deep_research_full got a file and a prompt, wrote the result
\* and returned the path.
C18_Witness ==
    /\ entry = "google_gemini_deep_research_full"
    /\ argFile = Given(<<"a", "\n">>)
    /\ argPrompt = Given(<<"a">>)
    /\ providerPrompt.text = <<"a", "\n", "\n", "a">>
    /\ promptReturned = <<"path">>

----------------------------------------------------------------------------
\* The browser session (session.py).  PlayPiSession keeps four handles,
\* _playwright, _browser, _context and _page; start() fills them in that
\* order, close() empties them in the opposite order inside one try block,
\* and create_session wraps start() and the caller's body in try/finally.

\* A bound of the model: the calls a caller makes on one session.
MaxSessionCalls == 4

SessionUsages == {"direct", "scoped"}

\* session.py:50-59: the order in which start() fills the handles.
StartOrder == <<"playwright", "browser", "context", "page">>

\* session.py:110-128: the order in which close() empties them.
CloseOrder == <<"page", "context", "browser", "playwright">>

Handles == {"playwright", "browser", "context", "page"}

\* Which awaited call of start() or close() raises: "none", or a handle.
FailurePoints == Handles \cup {"none"}

\* session.py:109-134.  The body of close() from its i-th block on: a block
\* whose handle is None is skipped; a close call that raises ends the try
\* block, the handle keeps its value and the blocks after it do not run;
\* released says whether the failed call closed its resource all the same.
RECURSIVE CloseFrom(_, _, _, _, _)
CloseFrom(i, h, l, failing, released) ==
    IF i > Len(CloseOrder) THEN [handles |-> h, live |-> l]
    ELSE LET x == CloseOrder[i] IN
         IF x \notin h THEN CloseFrom(i + 1, h, l, failing, released)
         ELSE IF x = failing
              THEN [handles |-> h, live |-> IF released THEN l \ {x} ELSE l]
              ELSE CloseFrom(i + 1, h \ {x}, l \ {x}, failing, released)

\* PlayPiSession.close (session.py:105-134): it never raises.
CloseSession(h, l, failing, released) == CloseFrom(1, h, l, failing, released)

\* session.py:48-59: the handles that start() has filled when its call for
\* the handle failing raises (all four when none does).
RECURSIVE StartedBefore(_, _)
StartedBefore(i, failing) ==
    IF i > Len(StartOrder) \/ StartOrder[i] = failing THEN {}
    ELSE {StartOrder[i]} \cup StartedBefore(i + 1, failing)

\* PlayPiSession.start (session.py:42-66): what it leaves and how it ends.
\* An already started session (a _playwright handle) is left alone; a
\* failure closes the session and raises BrowserError.
StartSession(h, l, failing, closeFailing, released) ==
    IF "playwright" \in h
    THEN [handles |-> h, live |-> l, ends |-> "returned", closes |-> 0]
    ELSE LET s == StartedBefore(1, failing) IN
         IF failing = "none"
         THEN [handles |-> h \cup s, live |-> l \cup s, ends |-> "returned", closes |-> 0]
         ELSE LET c == CloseSession(h \cup s, l \cup s, closeFailing, released) IN
              [handles |-> c.handles, live |-> c.live, ends |-> "BrowserError",
               closes |-> 1]

\* PlayPiSession.get_page (session.py:68-80).
GetPageResult(h) == IF "page" \notin h THEN "SessionError" ELSE "page"

\* The caller calls session.start() (session.py:42-66).
SessionStart ==
    /\ sessUsage = "direct"
    /\ sessPc = "idle"
    /\ sessCalls < MaxSessionCalls
    /\ \E failing \in FailurePoints, closeFailing \in FailurePoints, released \in BOOLEAN :
         LET r == StartSession(handles, live, failing, closeFailing, released) IN
         /\ handles' = r.handles
         /\ live' = r.live
         /\ lifecycle' = IF r.ends = "returned" THEN "started" ELSE "start_failed"
         /\ closeCalls' = closeCalls + r.closes
    /\ sessCalls' = sessCalls + 1
    /\ got' = "none"
    /\ UNCHANGED <<coreVars, extractVars, cleanVars, linkVars, sessUsage, sessPc, scopeExit>>

\* The caller calls session.get_page() (session.py:68-80), in the body of
\* the create_session scope, after it, or on a session of its own.
SessionGetPage ==
    /\ sessPc \in {"idle", "body", "exited"}
    /\ sessCalls < MaxSessionCalls
    /\ got' = GetPageResult(handles)
    /\ sessCalls' = sessCalls + 1
    /\ UNCHANGED <<coreVars, extractVars, cleanVars, linkVars, sessUsage, sessPc, handles,
                   live, lifecycle, closeCalls, scopeExit>>

\* The caller calls session.close() (session.py:105-134).
SessionClose ==
    /\ sessUsage = "direct"
    /\ sessPc = "idle"
    /\ sessCalls < MaxSessionCalls
    /\ \E failing \in FailurePoints, released \in BOOLEAN :
         LET r == CloseSession(handles, live, failing, released) IN
         /\ handles' = r.handles
         /\ live' = r.live
    /\ lifecycle' = "closed"
    /\ closeCalls' = closeCalls + 1
    /\ sessCalls' = sessCalls + 1
    /\ got' = "none"
    /\ UNCHANGED <<coreVars, extractVars, cleanVars, linkVars, sessUsage, sessPc, scopeExit>>

\* create_session up to its yield (session.py:154-157): start() returns and
\* the body begins, or start() raises and the finally clause closes the
\* session (session.py:158-159) before BrowserError leaves the scope.
ScopeEnter ==
    /\ sessUsage = "scoped"
    /\ sessPc = "new"
    /\ \E failing \in FailurePoints, closeFailing \in FailurePoints, released \in BOOLEAN,
          finallyFailing \in FailurePoints, finallyReleased \in BOOLEAN :
         LET r == StartSession(handles, live, failing, closeFailing, released)
             f == CloseSession(r.handles, r.live, finallyFailing, finallyReleased)
         IN  IF r.ends = "returned"
             THEN /\ handles' = r.handles
                  /\ live' = r.live
                  /\ lifecycle' = "started"
                  /\ closeCalls' = closeCalls
                  /\ sessPc' = "body"
                  /\ scopeExit' = scopeExit
             ELSE /\ handles' = f.handles
                  /\ live' = f.live
                  /\ lifecycle' = "closed"
                  /\ closeCalls' = closeCalls + r.closes + 1
                  /\ sessPc' = "exited"
                  /\ scopeExit' = "BrowserError"
    /\ UNCHANGED <<coreVars, extractVars, cleanVars, linkVars, sessUsage, got, sessCalls>>

\* create_session from its yield on (session.py:157-159): the body returns or
\* raises, and the finally clause closes the session.
ScopeExit ==
    /\ sessUsage = "scoped"
    /\ sessPc = "body"
    /\ \E outcome \in {"returned", "raised"}, failing \in FailurePoints, released \in BOOLEAN :
         LET r == CloseSession(handles, live, failing, released) IN
         /\ handles' = r.handles
         /\ live' = r.live
         /\ scopeExit' = outcome
    /\ lifecycle' = "closed"
    /\ closeCalls' = closeCalls + 1
    /\ sessPc' = "exited"
    /\ got' = "none"
    /\ UNCHANGED <<coreVars, extractVars, cleanVars, linkVars, sessUsage, sessCalls>>

\* PlayPiSession.__init__ (session.py:21-31): all four handles are None.
SessionInit ==
    /\ CoreIdle
    /\ ExtractIdle
    /\ CleanIdle
    /\ LinkIdle
    /\ sessUsage \in SessionUsages
    /\ sessPc = IF sessUsage = "scoped" THEN "new" ELSE "idle"
    /\ handles = {}
    /\ live = {}
    /\ lifecycle = "new"
    /\ got = "none"
    /\ closeCalls = 0
    /\ sessCalls = 0
    /\ scopeExit = "none"

SessionNext ==
    \/ SessionStart
    \/ SessionGetPage
    \/ SessionClose
    \/ ScopeEnter
    \/ ScopeExit

SpecSession == SessionInit /\ [][SessionNext]_vars

\* C21: get_page raises SessionError in every state in which the session is
\* not started (before start() and after close()), and returns the page
\* between a successful start() and close().
C21_GetPageFollowsLifecycle ==
    got # "none" =>
        /\ lifecycle \in {"new", "closed"} => got = "SessionError"
        /\ lifecycle = "started" => got = "page"

\* C22: the create_session scope is never left without close() having run,
\* and never with a browser resource still held.
C22_ScopeReleasesEverything ==
    sessPc = "exited" =>
        /\ closeCalls >= 1
        /\ live = {}

----------------------------------------------------------------------------
\* The line clean-up of html_to_markdown (html.py:29-40).  The text that
\* html2text's handle() returns is split at newlines, every line is stripped,
\* an empty line is kept only after a non-empty one, and the joined text is
\* stripped once more.

\* A bound of the model: the length of the text handle() returned.
MaxMarkdownLen == 5

MarkdownChars == {"a", "b", " ", "\n"}

Markdowns == SeqsUpTo(MarkdownChars, MaxMarkdownLen)

\* str.split("\n"): the pieces between the newlines, the empty ones too.
RECURSIVE SplitLines(_, _)
SplitLines(text, piece) ==
    IF text = <<>> THEN <<piece>>
    ELSE IF Head(text) = "\n" THEN <<piece>> \o SplitLines(Tail(text), <<>>)
    ELSE SplitLines(Tail(text), Append(piece, Head(text)))

RECURSIVE LStrip(_)
LStrip(text) ==
    IF text # <<>> /\ Head(text) \in Whitespace THEN LStrip(Tail(text)) ELSE text

\* str.strip()
Strip(text) == LStrip(RStrip(text))

\* (mutant) every stripped line is kept.
MutKeepLine(line, cleaned) == TRUE

\* html.py:37: `if line or (cleaned_lines and cleaned_lines[-1])`.
KeepLine(line, cleaned) ==
    line # <<>> \/ (cleaned # <<>> /\ cleaned[Len(cleaned)] # <<>>)

\* html.py:30: lines = markdown.split("\n"); cleaned_lines = [].
CleanSplit ==
    /\ cleanPc = "split"
    /\ lines' = SplitLines(markdown, <<>>)
    /\ cleanedLines' = <<>>
    /\ cleanIdx' = 1
    /\ cleanPc' = "lines"
    /\ UNCHANGED <<coreVars, sessVars, extractVars, linkVars, markdown, cleanResult>>

\* html.py:33-38: one pass of the for loop.
CleanLine ==
    /\ cleanPc = "lines"
    /\ cleanIdx <= Len(lines)
    /\ LET line == Strip(lines[cleanIdx]) IN
       cleanedLines' = IF KeepLine(line, cleanedLines) THEN Append(cleanedLines, line)
                       ELSE cleanedLines
    /\ cleanIdx' = cleanIdx + 1
    /\ UNCHANGED <<coreVars, sessVars, extractVars, linkVars, cleanPc, markdown, lines,
                   cleanResult>>

\* html.py:40: return "\n".join(cleaned_lines).strip().
CleanJoin ==
    /\ cleanPc = "lines"
    /\ cleanIdx > Len(lines)
    /\ cleanResult' = Strip(JoinLines(cleanedLines))
    /\ cleanPc' = "done"
    /\ UNCHANGED <<coreVars, sessVars, extractVars, linkVars, markdown, lines, cleanIdx,
                   cleanedLines>>

\* html.py:27: handle() has returned some text.
CleanInit ==
    /\ CoreIdle
    /\ SessionIdle
    /\ ExtractIdle
    /\ LinkIdle
    /\ cleanPc = "split"
    /\ markdown \in Markdowns
    /\ lines = <<>>
    /\ cleanIdx = 0
    /\ cleanedLines = <<>>
    /\ cleanResult = <<>>

CleanNext ==
    \/ CleanSplit
    \/ CleanLine
    \/ CleanJoin

SpecClean == CleanInit /\ [][CleanNext]_vars

\* The lines of a text, and those of them that are not empty.
LinesOf(text) == SplitLines(text, <<>>)

NonEmptyLines(ls) == SelectSeq(ls, LAMBDA l : l # <<>>)

StrippedLines(text) == [i \in 1..Len(LinesOf(text)) |-> Strip(LinesOf(text)[i])]

IsStripped(line) ==
    line = <<>> \/ (Head(line) \notin Whitespace /\ line[Len(line)] \notin Whitespace)

\* C25: the text html_to_markdown returns has only stripped lines, no two
\* consecutive empty lines and no leading or trailing empty line; its
\* non-empty lines are the non-empty stripped lines of the input, in their
\* order; an input without any text yields the empty string.
C25_LineCleanUp ==
    cleanPc = "done" =>
        LET out == LinesOf(cleanResult) IN
        /\ \A i \in 1..Len(out) : IsStripped(out[i])
        /\ \A i \in 1..(Len(out) - 1) : ~(out[i] = <<>> /\ out[i + 1] = <<>>)
        /\ cleanResult # <<>> => (out[1] # <<>> /\ out[Len(out)] # <<>>)
        /\ NonEmptyLines(out) = NonEmptyLines(StrippedLines(markdown))
        /\ (Range(markdown) \subseteq Whitespace) => cleanResult = <<>>

\* A text with an empty line in front and one in the middle was cleaned.
C25_Witness ==
    /\ cleanPc = "done"
    /\ markdown = <<"\n", "a", "\n", "\n", "b">>
    /\ cleanResult = <<"a", "\n", "\n", "b">>

----------------------------------------------------------------------------
\* The extraction of the response.  Deep research and deep think read the
\* page with extract_research_content (html.py:43-88) and convert the HTML
\* with html_to_markdown; ask composes thinking, output and sources with
\* _extract_enhanced_response (gemini.py:560-595), whose helpers return ""
\* instead of raising, and falls back to _extract_simple_response
\* (gemini.py:462-557).

ExtractFns == {"research", "enhanced"}

\* html.py:58-64: the candidate containers, in the order of the list.
ResearchSelectors ==
    << "[data-test-id=scroll-container]", ".research-content", ".response-container",
       "main [role=main]", "article" >>

\* gemini.py:466-471: the candidates of _extract_simple_response.
SimpleSelectors ==
    << "message-content", "response-element", ".model-response-text",
       ".markdown.markdown-main-panel" >>

\* What a container holds: nothing, blanks only, or a text (named after the
\* container, so that a result tells where it was read).
HtmlsOf(name) == {<<>>, <<" ">>, <<name>>}

\* A locator on the page: no element matches it, the driver raises on it, or
\* an element matches and inner_html() returns its HTML.
Absent == [state |-> "absent", html |-> <<>>]
Failing == [state |-> "error", html |-> <<>>]
Matching(h) == [state |-> "match", html |-> h]

LocatorValues(name) == {Absent, Failing} \cup {Matching(h) : h \in HtmlsOf(name)}

ResearchPages ==
    {p \in [1..Len(ResearchSelectors) -> UNION {LocatorValues(ResearchSelectors[i]) :
                                                   i \in 1..Len(ResearchSelectors)}] :
        \A i \in 1..Len(ResearchSelectors) : p[i] \in LocatorValues(ResearchSelectors[i])}

\* html.py:33-38 as a function of the lines.
RECURSIVE CleanedLines(_, _, _)
CleanedLines(ls, i, cleaned) ==
    IF i > Len(ls) THEN cleaned
    ELSE LET line == Strip(ls[i]) IN
         CleanedLines(ls, i + 1,
                      IF KeepLine(line, cleaned) THEN Append(cleaned, line) ELSE cleaned)

\* html2text's handle() on HTML without markup: the text and a paragraph end.
Handle(html) == html \o <<"\n", "\n">>

\* html_to_markdown (html.py:9-40).
HtmlToMarkdown(html) ==
    Strip(JoinLines(CleanedLines(SplitLines(Handle(html), <<>>), 1, <<>>)))

\* html.py:66-77: the for loop over the candidates, from the i-th on:
\* content_html after the loop.  The first candidate that matches is read and
\* ends the loop; a candidate the driver raises on is passed over.
RECURSIVE ResearchLoop(_, _)
ResearchLoop(p, i) ==
    IF i > Len(p) THEN <<>>
    ELSE IF p[i].state = "match" THEN p[i].html
    ELSE ResearchLoop(p, i + 1)

\* extract_research_content (html.py:43-88): the HTML it returns, or the
\* error of the body fallback, which it raises again.
ResearchContent(p, body) ==
    LET found == ResearchLoop(p, 1) IN
    IF found # <<>> THEN <<"html", found>>
    ELSE IF body.state = "match" THEN <<"html", body.html>>
    ELSE <<"PlaywrightError">>

\* extract_research_content is awaited (html.py:43-88).
ExtractResearch ==
    /\ extractPc = "research"
    /\ LET r == ResearchContent(researchPage, bodyHtml) IN
       IF r[1] = "html"
       THEN /\ contentHtml' = r[2]
            /\ extractPc' = "markdown"
            /\ extractResult' = extractResult
       ELSE /\ contentHtml' = contentHtml
            /\ extractPc' = "done"
            /\ extractResult' = r
    /\ containerSeen' = \E i \in 1..Len(researchPage) : researchPage[i].state = "match"
    /\ fallbackUsable' = (ResearchLoop(researchPage, 1) = <<>> /\ bodyHtml.state = "match"
                          /\ HtmlToMarkdown(bodyHtml.html) # <<>>)
    /\ UNCHANGED <<coreVars, sessVars, cleanVars, linkVars, toggleVars, extractFn, researchPage,
                   bodyHtml, outputContent, thinkingContent, sourcesContent, simpleResult>>

\* markdown_result = html_to_markdown(html_content) (gemini.py:184, 367),
\* which the operation returns.
ResearchMarkdown ==
    /\ extractPc = "markdown"
    /\ extractResult' = <<"text", HtmlToMarkdown(contentHtml)>>
    /\ extractPc' = "done"
    /\ UNCHANGED <<coreVars, sessVars, cleanVars, linkVars, toggleVars, extractFn, researchPage,
                   bodyHtml, contentHtml, outputContent, thinkingContent, sourcesContent,
                   simpleResult, containerSeen, fallbackUsable>>

\* The first candidate of a selector loop whose wait_for does not time out,
\* 0 when all time out.
FirstEnding(cands) ==
    IF \E i \in 1..Len(cands) : cands[i] # "timeout"
    THEN CHOOSE i \in 1..Len(cands) :
            cands[i] # "timeout" /\ \A j \in 1..(i - 1) : cands[j] = "timeout"
    ELSE 0

\* What the text fallback of _extract_simple_response finds (gemini.py:504-530):
\* no usable line, some content lines, or an error of the driver.
FallbackStates == {"none", "lines", "error"}

\* "\n\n".join(content_lines) of the fallback (gemini.py:528).
FallbackText == <<"page text">>

\* _extract_simple_response (gemini.py:462-557): the Markdown of the first
\* visible candidate; with no candidate, the content lines of the page text,
\* or ProviderError; every other exception becomes ProviderError.
SimpleResponse(cands, html, fallback) ==
    LET k == FirstEnding(cands) IN
    IF k = 0
    THEN IF fallback = "lines" THEN <<"text", FallbackText>> ELSE <<"ProviderError">>
    ELSE IF cands[k] = "visible" THEN <<"text", HtmlToMarkdown(html)>>
    ELSE <<"ProviderError">>

\* _extract_main_output (gemini.py:598-624) up to the end of its loop.
ExtractMainOutput ==
    /\ extractPc = "output"
    /\ \E cands \in [1..Len(MainOutputSelectors) -> CandidateStates],
          html \in HtmlsOf("output") :
         LET k == FirstEnding(cands) IN
         /\ extractPc' = IF k = 0 THEN "output_simple" ELSE "thinking"
         /\ outputContent' = IF k # 0 /\ cands[k] = "visible" THEN HtmlToMarkdown(html)
                             ELSE <<>>
         /\ containerSeen' = (containerSeen \/ (k # 0 /\ cands[k] = "visible"))
    /\ UNCHANGED <<coreVars, sessVars, cleanVars, linkVars, toggleVars, extractFn, researchPage,
                   bodyHtml, contentHtml, thinkingContent, sourcesContent, simpleResult,
                   fallbackUsable, extractResult>>

\* _extract_simple_response is awaited: by _extract_main_output when none of
\* its candidates is visible (gemini.py:620-624; its error becomes ""), and
\* by _extract_enhanced_response when there is no section (gemini.py:586-589).
ExtractSimple ==
    /\ extractPc \in {"output_simple", "simple"}
    /\ \E cands \in [1..Len(SimpleSelectors) -> CandidateStates],
          html \in HtmlsOf("simple"), fallback \in FallbackStates :
         LET r == SimpleResponse(cands, html, fallback)
             k == FirstEnding(cands)
         IN  /\ simpleResult' = r
             /\ containerSeen' = (containerSeen \/ (k # 0 /\ cands[k] = "visible"))
             /\ fallbackUsable' = (fallbackUsable \/ (k = 0 /\ fallback = "lines"))
             /\ IF extractPc = "output_simple"
                THEN /\ outputContent' = IF r[1] = "text" THEN r[2] ELSE <<>>
                     /\ extractPc' = "thinking"
                     /\ extractResult' = extractResult
                ELSE /\ outputContent' = outputContent
                     /\ extractPc' = "done"
                     /\ extractResult' = r
    /\ UNCHANGED <<coreVars, sessVars, cleanVars, linkVars, toggleVars, extractFn, researchPage,
                   bodyHtml, contentHtml, thinkingContent, sourcesContent>>

\* What a section helper returns for the state of its panel: "" when the
\* panel is absent or the driver raises, else the Markdown of its HTML.
SectionContent(panel) ==
    IF panel.state = "match" THEN HtmlToMarkdown(panel.html) ELSE <<>>

\* str.lower(), word by word, for the words of the labels tried.
LowerWord(w) ==
    CASE w \in {"Show", "SHOW", "show"} -> "show"
      [] w \in {"Hide", "HIDE", "hide"} -> "hide"
      [] w \in {"Thinking", "THINKING", "thinking"} -> "thinking"
      [] OTHER -> w

Lower(text) == [i \in 1..Len(text) |-> LowerWord(text[i])]

\* `needle in text`, on words.
Contains(text, needle) ==
    \E i \in 0..(Len(text) - Len(needle)) :
        \A k \in 1..Len(needle) : text[i + k] = needle[k]

\* The labels the toggle of a collapsed and of an expanded panel may carry;
\* <<>> stands for None and for "".
CollapsedLabels == {<<"Show", "thinking">>, <<"SHOW", "THINKING">>, <<"Toon", "denkproces">>, <<>>}
ExpandedLabels == {<<"Hide", "thinking">>, <<"Verberg", "denkproces">>, <<>>}

\* The thinking toggle as the page holds it: whether count() finds it, and
\* the panel's state with a label that goes with it.
ThinkingToggles ==
    [button : {"absent", "failing"}, open : BOOLEAN, label : {<<>>}]
    \cup [button : {"present"}, open : {FALSE}, label : CollapsedLabels]
    \cup [button : {"present"}, open : {TRUE}, label : ExpandedLabels]

\* (mutant) the toggle is clicked whatever its label says.
MutShouldClick(button_text) == TRUE

\* `if button_text and "show thinking" in button_text.lower()`
ShouldClick(button_text) ==
    button_text # <<>> /\ Contains(Lower(button_text), <<"show", "thinking">>)

\* _extract_thinking_content (gemini.py:627-664).  Without a toggle the
\* function returns "" at once; a click on the toggle flips the panel; an
\* error of the driver anywhere ends the function with "".
ExtractThinking ==
    /\ extractPc = "thinking"
    /\ \E toggle \in ThinkingToggles, panel \in LocatorValues("thinking"), clickFails \in BOOLEAN :
         LET found == toggle.button = "present"
             click == found /\ ShouldClick(toggle.label)
             read == found /\ ~(click /\ clickFails)
         IN  /\ toggleLabel' = toggle.label
             /\ openAtCall' = toggle.open
             /\ toggleClicks' = IF click THEN toggleClicks + 1 ELSE toggleClicks
             /\ panelOpen' = IF click /\ ~clickFails THEN ~toggle.open ELSE toggle.open
             /\ thinkingContent' = IF read THEN SectionContent(panel) ELSE <<>>
             /\ containerSeen' = (containerSeen \/ (read /\ panel.state = "match"))
    /\ extractPc' = "sources"
    /\ UNCHANGED <<coreVars, sessVars, cleanVars, linkVars, extractFn, researchPage,
                   bodyHtml, contentHtml, outputContent, sourcesContent, simpleResult,
                   fallbackUsable, extractResult>>

\* _extract_sources_content (gemini.py:667-735).
ExtractSources ==
    /\ extractPc = "sources"
    /\ \E panel \in LocatorValues("sources") :
         /\ sourcesContent' = SectionContent(panel)
         /\ containerSeen' = (containerSeen \/ panel.state = "match")
    /\ extractPc' = "compose"
    /\ UNCHANGED <<coreVars, sessVars, cleanVars, linkVars, toggleVars, extractFn, researchPage,
                   bodyHtml, contentHtml, outputContent, thinkingContent, simpleResult,
                   fallbackUsable, extractResult>>

\* f"<tag>\n{content}\n</tag>" (gemini.py:578, 581, 584).
Section(tag, content) == <<"<" \o tag \o ">", "\n">> \o content \o <<"\n", "</" \o tag \o ">">>

\* "\n\n".join(parts)
RECURSIVE JoinParts(_)
JoinParts(parts) ==
    IF parts = <<>> THEN <<>>
    ELSE IF Len(parts) = 1 THEN parts[1]
    ELSE parts[1] \o <<"\n", "\n">> \o JoinParts(Tail(parts))

\* (mutant) the sections in the order in which they were extracted.
MutResultParts(thinking, output, sources) ==
    (IF output # <<>> THEN <<Section("output", output)>> ELSE <<>>)
    \o (IF thinking # <<>> THEN <<Section("thinking", thinking)>> ELSE <<>>)
    \o (IF sources # <<>> THEN <<Section("sources", sources)>> ELSE <<>>)

\* result_parts (gemini.py:575-584).
ResultParts(thinking, output, sources) ==
    (IF thinking # <<>> THEN <<Section("thinking", thinking)>> ELSE <<>>)
    \o (IF output # <<>> THEN <<Section("output", output)>> ELSE <<>>)
    \o (IF sources # <<>> THEN <<Section("sources", sources)>> ELSE <<>>)

\* gemini.py:574-591: the response is composed, or the simple extraction is
\* called when there is no section.
ComposeEnhanced ==
    /\ extractPc = "compose"
    /\ LET parts == ResultParts(thinkingContent, outputContent, sourcesContent) IN
       IF parts = <<>>
       THEN /\ extractPc' = "simple"
            /\ extractResult' = extractResult
       ELSE /\ extractPc' = "done"
            /\ extractResult' = <<"text", JoinParts(parts)>>
    /\ UNCHANGED <<coreVars, sessVars, cleanVars, linkVars, toggleVars, extractFn, researchPage,
                   bodyHtml, contentHtml, outputContent, thinkingContent, sourcesContent,
                   simpleResult, containerSeen, fallbackUsable>>

\* The completion wait is over and the operation starts to read the page.
ExtractInit ==
    /\ CoreIdle
    /\ SessionIdle
    /\ CleanIdle
    /\ LinkIdle
    /\ extractFn \in ExtractFns
    /\ extractPc = IF extractFn = "research" THEN "research" ELSE "output"
    /\ IF extractFn = "research"
       THEN /\ researchPage \in ResearchPages
            /\ bodyHtml \in LocatorValues("body") \ {Absent}
       ELSE /\ researchPage = <<>>
            /\ bodyHtml = Absent
    /\ contentHtml = <<>>
    /\ outputContent = <<>>
    /\ thinkingContent = <<>>
    /\ sourcesContent = <<>>
    /\ simpleResult = <<"none">>
    /\ containerSeen = FALSE
    /\ fallbackUsable = FALSE
    /\ extractResult = <<"none">>
    /\ toggleLabel = <<>>
    /\ openAtCall = FALSE
    /\ panelOpen = FALSE
    /\ toggleClicks = 0

ExtractNext ==
    \/ ExtractResearch
    \/ ResearchMarkdown
    \/ ExtractMainOutput
    \/ ExtractSimple
    \/ ExtractThinking
    \/ ExtractSources
    \/ ComposeEnhanced

SpecExtract == ExtractInit /\ [][ExtractNext]_vars

\* The candidates of the page that match and hold some content.
NonEmptyCandidates ==
    {i \in 1..Len(researchPage) :
        researchPage[i].state = "match" /\ researchPage[i].html # <<>>}

ResearchReturned == extractFn = "research" /\ extractPc \in {"markdown", "done"}

\* C26: extract_research_content returns the content of the first candidate,
\* in list order, whose content is non-empty, and the content of the body
\* only when no candidate has non-empty content.
C26_FirstNonEmptyCandidateWins ==
    ResearchReturned =>
        IF NonEmptyCandidates # {}
        THEN /\ extractResult # <<"PlaywrightError">>
             /\ contentHtml = researchPage[FirstOf(NonEmptyCandidates)].html
        ELSE bodyHtml.state = "match" => contentHtml = bodyHtml.html

\* Two texts joined by an empty line, or the one of them that is not empty.
Glue(a, b) == IF a = <<>> THEN b ELSE IF b = <<>> THEN a ELSE a \o <<"\n", "\n">> \o b

Wrapped(tag, content) == IF content = <<>> THEN <<>> ELSE Section(tag, content)

EnhancedReturned == extractFn = "enhanced" /\ extractPc = "done"

\* C23: the enhanced response is made of the non-empty sections in the order
\* thinking, output, sources, each inside its own delimiters; with no
\* section at all it is what the simple extraction gives.
C23_SectionsInFixedOrder ==
    EnhancedReturned =>
        IF thinkingContent = <<>> /\ outputContent = <<>> /\ sourcesContent = <<>>
        THEN extractResult = simpleResult
        ELSE extractResult =
                <<"text", Glue(Wrapped("thinking", thinkingContent),
                               Glue(Wrapped("output", outputContent),
                                    Wrapped("sources", sourcesContent)))>>

\* A response with all three sections was composed.
C23_Witness ==
    /\ EnhancedReturned
    /\ thinkingContent # <<>>
    /\ outputContent # <<>>
    /\ sourcesContent # <<>>
    /\ extractResult[1] = "text"

\* C27: when the extraction ends without having found a container or a usable
\* fallback text, it ends with ProviderError and returns no text.
C27_NoContentIsProviderError ==
    (extractPc = "done" /\ ~containerSeen /\ ~fallbackUsable
        /\ (extractFn = "research" => bodyHtml.state = "match")) =>
        extractResult = <<"ProviderError">>

----------------------------------------------------------------------------
\* The list of sources.  _extract_sources_content (gemini.py:695-724) reads
\* the source cards of the sidebar one by one; GrokResponse._process_x_links
\* (external/01in/crapi_grok-3.py:127-154) collects the links of the anchors.
\* A URL is a sequence of parts: an origin (none in a relative link), a
\* path and, possibly, the suffix of the photo route.

\* A bound of the model: the cards (anchors) of one page.
MaxCards == 3

LinkFns == {"_extract_sources_content", "_process_x_links"}

HostOrigin == "https://x.com"

\* Suffixes that match the pattern /photo/\d+/?$ .
PhotoSuffixes == {"/photo/1"}

\* The href values of the model; <<>> is the empty string.
Urls ==
    { <<>>, <<HostOrigin, "/a">>, <<"/a">>, <<HostOrigin, "/a", "/photo/1">>,
      <<HostOrigin, "/b">> }

Titles == {"", "t1", "t2"}

\* A card whose reads succeed, and a card on which the driver raises.
Card(title, url) == [title |-> title, url |-> url, raises |-> FALSE]
RaisingCard == [title |-> "", url |-> <<>>, raises |-> TRUE]

CardsOf(fn) ==
    IF fn = "_extract_sources_content"
    THEN {Card(t, u) : t \in Titles, u \in Urls} \cup {RaisingCard}
    ELSE {Card("", u) : u \in Urls}

\* crapi_grok-3.py:136-137: a link that starts with "/" gets the origin.
Absolute(url) ==
    IF url # <<>> /\ Head(url) # HostOrigin THEN <<HostOrigin>> \o url ELSE url

\* crapi_grok-3.py:139-150: the photo suffix at the end of the path is
\* replaced by "/".
CleanUrl(url) ==
    LET a == Absolute(url) IN
    IF a # <<>> /\ a[Len(a)] \in PhotoSuffixes
    THEN SubSeq(a, 1, Len(a) - 1) \o <<"/">>
    ELSE a

Entry(title, url) == [title |-> title, url |-> url]

\* unique_links[clean_url] = None (crapi_grok-3.py:152): a key that is
\* already in the ordered dictionary keeps its place.
AddUnique(list, url) ==
    IF \E i \in 1..Len(list) : list[i].url = url THEN list ELSE Append(list, Entry("", url))

\* One pass of a loop over the cards: what the list is after it.
\* gemini.py:700-721: a card with a title and a URL is appended; a card
\* without one of them, or one the driver raises on, is passed over.
\* crapi_grok-3.py:134-152: the cleaned URL is added to the dictionary.
AfterCard(fn, list, card) ==
    IF fn = "_extract_sources_content"
    THEN IF ~card.raises /\ card.title # "" /\ card.url # <<>>
         THEN Append(list, Entry(card.title, card.url))
         ELSE list
    ELSE AddUnique(list, CleanUrl(card.url))

\* The body of the for loop (gemini.py:699-721, crapi_grok-3.py:134-152).
LinkCard ==
    /\ linkPc = "cards"
    /\ cardIdx <= Len(cards)
    /\ sourcesList' = AfterCard(linkFn, sourcesList, cards[cardIdx])
    /\ cardIdx' = cardIdx + 1
    /\ UNCHANGED <<coreVars, sessVars, extractVars, cleanVars, linkFn, linkPc, cards>>

\* The loop is over: the list is joined and returned (gemini.py:723-724),
\* or stored (crapi_grok-3.py:154).
LinkReturn ==
    /\ linkPc = "cards"
    /\ cardIdx > Len(cards)
    /\ linkPc' = "done"
    /\ UNCHANGED <<coreVars, sessVars, extractVars, cleanVars, linkFn, cards, cardIdx,
                   sourcesList>>

\* The sidebar is open and its cards are counted (gemini.py:692-697); the
\* anchors are found (crapi_grok-3.py:133-134).
LinkInit ==
    /\ CoreIdle
    /\ SessionIdle
    /\ ExtractIdle
    /\ CleanIdle
    /\ linkFn \in LinkFns
    /\ cards \in UNION {[1..n -> CardsOf(linkFn)] : n \in 0..MaxCards}
    /\ linkPc = "cards"
    /\ cardIdx = 1
    /\ sourcesList = <<>>

LinkNext ==
    \/ LinkCard
    \/ LinkReturn

SpecLinks == LinkInit /\ [][LinkNext]_vars

\* The cards that can be listed: read without error, with a URL and, in the
\* sidebar, a title.
Listable(card) ==
    /\ ~card.raises
    /\ linkFn = "_extract_sources_content" => (card.title # "" /\ card.url # <<>>)

\* The positions of the listable cards whose normalized URL no listable
\* card before them has.
FirstSeen ==
    {i \in 1..Len(cards) :
        /\ Listable(cards[i])
        /\ \A j \in 1..(i - 1) :
              Listable(cards[j]) => CleanUrl(cards[j].url) # CleanUrl(cards[i].url)}

\* C24: the list of sources has at most one entry per normalized URL, the
\* entry of the card that was seen first, and the entries are in the order
\* in which their URLs were first seen.
C24_OneEntryPerNormalizedUrl ==
    linkPc = "done" =>
        /\ Len(sourcesList) = Cardinality(FirstSeen)
        /\ \A k \in 1..Len(sourcesList) :
              \E i \in FirstSeen :
                 /\ Cardinality({j \in FirstSeen : j <= i}) = k
                 /\ CleanUrl(sourcesList[k].url) = CleanUrl(cards[i].url)
                 /\ sourcesList[k].title = cards[i].title

----------------------------------------------------------------------------
\* The timeout of the sources wait.

\* C29: _wait_for_sources_button never raises; when its budget is over
\* without a completion signal it returns, and it has read the page content
\* exactly once by then, and never when it returns on a signal.
C29_SourcesTimeoutReturns ==
    waitFn = "_wait_for_sources_button" =>
        /\ waitPc # "raised"
        /\ waitPc = "returned" =>
              IF waitResult = "timeout" THEN diagnosticReads = 1 ELSE diagnosticReads = 0

\* The sources wait polled, its budget ran out, and it returned.
C29_Witness ==
    /\ waitFn = "_wait_for_sources_button"
    /\ waitTimeout > 0
    /\ pollSleeps
    /\ waitPc = "returned"
    /\ waitResult = "timeout"
    /\ diagnosticReads = 1

\* ---------------------------------------------------------------------------
\* C31: the progress report of the completion loop is observation only.
\* Whatever it observes (nothing, the steps, a status text, an error of the
\* driver), the step from the progress report leaves the call, its timeout, the
\* clock, the page and the outcome as they were, and goes on with the first
\* completion indicator, which is what an iteration without a report does.
C31_ProgressObservesOnly ==
    [][waitPc = "progress" =>
          /\ waitPc' = "indicator"
          /\ indIdx' = 1
          /\ UNCHANGED <<waitFn, waitTimeout, waitNow, pageVisible, pageContent,
                         visibleAtCall, firstText, firstReadAt, probed, probeErrors,
                         pollSleeps, contentReads, diagnosticReads, waitResult>>]_vars

\* A completion wait that met an error of the driver in a progress report and
\* still ended on an indicator, more than thirty seconds after the call.
C31_Witness ==
    /\ waitFn = "_wait_for_completion"
    /\ progressObs = "error"
    /\ lastProgress >= Ticks(ReportInterval)
    /\ waitPc = "returned"
    /\ waitResult = "indicator"

\* ---------------------------------------------------------------------------
\* The calls that read the page and leave it as it is.
ReadOnlyCalls == {"wait_for_load_state", "locator", "count", "url"}

\* C32: while it waits for the login, ensure_authenticated makes only
\* read-only calls on the page (the load-state wait, the count of the textbox,
\* the read of the URL): no click and no fill, in any iteration, whether the
\* wait ends in a return or in an error.
C32_LoginWaitOnlyReads ==
    /\ pageCalls \subseteq ReadOnlyCalls
    /\ authPc \in {"returned", "sleep"} => {"wait_for_load_state", "locator", "count"} \subseteq pageCalls
    /\ (authPc = "raised" /\ lastProbe \in ProbeOutcomes) => pageCalls = ReadOnlyCalls

\* The wait returned after an iteration that found no textbox and read the URL.
C32_Witness ==
    /\ authPc = "returned"
    /\ pageCalls = ReadOnlyCalls
    /\ now > 0

\* C37 (as stated): AuthenticationError is raised only in an iteration whose
\* probe found no chat interface, after at least one probe, and a probe that
\* finds the chat interface makes the wait return.
C37_RaisesOnlyAfterFailedProbe ==
    /\ (authPc = "raised" /\ authErr = "AuthenticationError") =>
           lastProbe \in {"absent", "error"}
    /\ lastProbe = "found" => authPc = "returned"

\* The forced failure of auth.py: PLAYPI_FORCE_AUTH_FAILURE=1 and a real Page.
ForcedFailure == forceFailure /\ authVariant = "gemini"

\* C37 (amended): unless the failure is forced by the environment, for every
\* timeout >= 0 AuthenticationError is raised only in an iteration whose probe
\* found no chat interface, so after at least one probe; a probe that finds
\* the chat interface makes the wait return, also after the login deadline;
\* the forced failure is raised before any call on the page.
C37_LoopRaisesOnlyAfterFailedProbe ==
    /\ (authPc = "raised" /\ authErr = "AuthenticationError" /\ ~ForcedFailure) =>
           /\ lastProbe \in {"absent", "error"}
           /\ now > loginDeadline
    /\ (authPc = "raised" /\ ForcedFailure) =>
           /\ authErr = "AuthenticationError"
           /\ lastProbe = "none"
           /\ pageCalls = {}
    /\ lastProbe = "found" => authPc = "returned"

\* With a timeout of 0 the wait returned on a probe made after the deadline.
C37_Witness ==
    /\ authTimeout = 0
    /\ authPc = "returned"
    /\ lastProbe = "found"
    /\ now > loginDeadline

\* ---------------------------------------------------------------------------
ThinkingExtracted == extractFn # "research" /\ extractPc \in {"sources", "compose", "simple", "done"}

\* C33: _extract_thinking_content clicks the thinking toggle only when the
\* label of the toggle shows that the panel is collapsed; a panel that is
\* expanded at the call is never clicked and is still expanded afterwards; the
\* toggle is clicked at most once in an extraction.
C33_ToggleClickedOnlyWhenCollapsed ==
    /\ toggleClicks <= 1
    /\ toggleClicks = 1 =>
           /\ toggleLabel \in CollapsedLabels
           /\ Contains(Lower(toggleLabel), <<"show", "thinking">>)
           /\ ~openAtCall
    /\ (ThinkingExtracted /\ openAtCall) => (toggleClicks = 0 /\ panelOpen)

\* A collapsed panel was opened by the one click, under a label in capitals,
\* and its content was read.
C33_Witness ==
    /\ ThinkingExtracted
    /\ ~openAtCall
    /\ toggleClicks = 1
    /\ toggleLabel = <<"SHOW", "THINKING">>
    /\ panelOpen
    /\ thinkingContent # <<>>

\* ---------------------------------------------------------------------------
\* The candidates of the dialog on which some call raised, by position.
FailingButtons == {i \in 1..Len(dialog.probed) : ButtonFailures(dialog.buttons[i]) # <<>>}

\* C34: _handle_confirmation_dialog never raises.  Whatever fails (the wait
\* for the widget, the wait for a candidate, the read of its text, its click
\* and the forced click after it), no exception leaves the function: a
\* candidate that failed without being clicked is followed by the next
\* candidate, or by the return after the last one, and the step returns.
C34_DialogNeverRaises ==
    /\ dialog.escaped = "none"
    /\ raisedBy # "_handle_confirmation_dialog"
    /\ dialog.widget # "none" => "_handle_confirmation_dialog" \in Range(okSteps)
    /\ \A i \in FailingButtons :
          \/ dialog.buttons[i] = "forced" /\ Len(dialog.probed) = i
          \/ dialog.buttons[i] # "forced" /\ i < Len(ConfirmSelectors) /\ Len(dialog.probed) > i
          \/ dialog.buttons[i] # "forced" /\ i = Len(ConfirmSelectors)

\* The text of the first candidate could not be read, the second one raised
\* while it was waited for, both clicks on the last one failed, and the
\* completion wait was started.
C34_Witness ==
    /\ dialog.widget = "visible"
    /\ dialog.buttons = <<"fail_text", "error", "fail_click">>
    /\ dialog.clickCalls = 2
    /\ Started("_wait_for_completion")

\* ---------------------------------------------------------------------------
\* C35: after close() has returned, the page, the context, the browser and
\* the driver are all closed and their handles are cleared, whatever failed
\* while closing, and get_page raises SessionError.
C35_CloseReleasesAndClears ==
    lifecycle = "closed" =>
        /\ handles = {}
        /\ live = {}
        /\ GetPageResult(handles) = "SessionError"

----------------------------------------------------------------------------
\* The batch under the scheduling of the event loop.  asyncio runs every
\* coroutine that is ready (its first step, its step after a wake-up), and the
\* claim assumes that a task inside the guarded section terminates: its
\* new_page() call and its sequencer call end, by returning or by raising.

TaskFairness(t) ==
    /\ WF_vars(t \in TaskIds /\ TaskStart(t))
    /\ WF_vars(t \in TaskIds /\ TaskResume(t))
    /\ WF_vars(t \in TaskIds /\ (TaskPageAcquired(t) \/ TaskPageFails(t)))
    /\ WF_vars(t \in TaskIds /\ (TaskOnPageReturns(t) \/ TaskOnPageRaises(t)))

SpecBatchFair == BatchInit /\ [][BatchNext]_vars /\ \A t \in 1..MaxTasks : TaskFairness(t)

\* The task has passed `async with semaphore:`.
Entered(t) == taskPc[t] \in InSection \cup {"done", "failed"}

\* C36: the permit of the semaphore is released on every way out of a task,
\* by return and by exception, so once gather() has created the tasks every
\* task of the batch enters the guarded section at some time, given that each
\* task inside it terminates; no task waits for a permit forever.
C36_EveryTaskEntersSection ==
    \A t \in 1..MaxTasks :
        (t \in TaskIds /\ mainPc = "gathering") ~> (t \in TaskIds /\ Entered(t))

\* The fourth task of a batch is inside the section with no permit left, after
\* the first coroutine to finish had raised.
C36_Witness ==
    /\ NTasks = 4
    /\ taskPc[4] = "new_page"
    /\ permits = 0
    /\ waiters = <<>>
    /\ Len(doneOrder) = 1
    /\ taskPc[doneOrder[1]] = "failed"

====
